---- MODULE Spec2Model ----
(***************************************************************************)
(* Model of msc.mods: the mods manifest, the two mod directories, the      *)
(* inventory (manifest against filesystem) and the manifest operations     *)
(* init / add / enable / disable / remove / purge.                         *)
(*                                                                         *)
(* Strings the code transforms (ids, filenames, names, loaders, versions)  *)
(* are sequences of one-character strings, so that lower(), re.sub(),      *)
(* strip() and Path.stem are computed and not assumed.  An Optional value  *)
(* is None (the empty tuple) or Some(x) (the one-element tuple).           *)
(***************************************************************************)
EXTENDS Integers, Sequences, FiniteSets, TLC

VARIABLES
    cfg,        \* MscConfig: server_type, minecraft_version (read-only input)
    manifest,   \* the caller's in-memory ModManifest: None or Some(document)
    disk,       \* the manifest file <data>/mods/.mscmods.json: None or Some(JSON)
    fs,         \* the two directories: fs[location] = [exists, files]
    clock,      \* the wall clock read by _now_iso
    last,       \* the last call: its name, arguments, outcome and return value
    invocations \* command-line invocations running at once, each with its
                \* own loaded manifest; none in a single caller's session

vars == <<cfg, manifest, disk, fs, clock, last, invocations>>

----------------------------------------------------------------------------
(* Optional values and Python truthiness *)

None == <<>>

Some(x) == <<x>>

\* Python "a or b" on Optional[str]: a when it is neither None nor ""
OrElse(a, b) == IF a # None /\ a[1] # <<>> THEN a ELSE b

----------------------------------------------------------------------------
(* Characters and strings *)

LowerLetters == <<"a","b","c","d","e","f","g","h","i","j","k","l","m",
                  "n","o","p","q","r","s","t","u","v","w","x","y","z">>

UpperLetters == <<"A","B","C","D","E","F","G","H","I","J","K","L","M",
                  "N","O","P","Q","R","S","T","U","V","W","X","Y","Z">>

DigitChars == {"0","1","2","3","4","5","6","7","8","9"}

Range(s) == {s[i] : i \in DOMAIN s}

IsUpper(c) == c \in Range(UpperLetters)

IsLower(c) == c \in Range(LowerLetters)

\* the character class [a-zA-Z0-9]
IsAlnum(c) == IsUpper(c) \/ IsLower(c) \/ c \in DigitChars

LowerChar(c) ==
    IF IsUpper(c)
    THEN LowerLetters[CHOOSE i \in DOMAIN UpperLetters : UpperLetters[i] = c]
    ELSE c

UpperChar(c) ==
    IF IsLower(c)
    THEN UpperLetters[CHOOSE i \in DOMAIN LowerLetters : LowerLetters[i] = c]
    ELSE c

\* str.lower()
Lower(s) == [i \in DOMAIN s |-> LowerChar(s[i])]

\* the index of the last "." of a file name, 0 when there is none
LastDot(name) ==
    LET dots == {i \in DOMAIN name : name[i] = "."}
    IN  IF dots = {} THEN 0 ELSE CHOOSE i \in dots : \A j \in dots : j <= i

\* Path.suffix: from the last dot, unless the dot leads or ends the name
Suffix(name) ==
    LET i == LastDot(name)
    IN  IF i > 1 /\ i < Len(name) THEN SubSeq(name, i, Len(name)) ELSE <<>>

\* Path.stem: the name without its suffix
Stem(name) == SubSeq(name, 1, Len(name) - Len(Suffix(name)))

\* re.sub(r"[^a-zA-Z0-9]+", "-", s): every maximal run of other characters
\* becomes one hyphen
RECURSIVE SubRuns(_)
SubRuns(s) ==
    IF s = <<>> THEN <<>>
    ELSE IF IsAlnum(Head(s)) THEN <<Head(s)>> \o SubRuns(Tail(s))
    ELSE IF Len(s) > 1 /\ ~IsAlnum(s[2]) THEN SubRuns(Tail(s))
    ELSE <<"-">> \o SubRuns(Tail(s))

\* str.strip("-")
RECURSIVE StripHyphens(_)
StripHyphens(s) ==
    IF s = <<>> THEN <<>>
    ELSE IF Head(s) = "-" THEN StripHyphens(Tail(s))
    ELSE IF s[Len(s)] = "-" THEN StripHyphens(SubSeq(s, 1, Len(s) - 1))
    ELSE s

S_mod == <<"m","o","d">>

\* _derive_mod_id: slug of the stem, "mod" when the slug is empty
DeriveModId(filename) ==
    LET slug == Lower(StripHyphens(SubRuns(Stem(filename))))
    IN  IF slug = <<>> THEN S_mod ELSE slug

\* str.title() after "-" and "_" became spaces: a letter that follows a
\* letter is lowered, any other letter is raised
HumanizeName(mod_id) ==
    LET parts == [i \in DOMAIN mod_id |->
                    IF mod_id[i] \in {"-", "_"} THEN " " ELSE mod_id[i]]
        cased(i) == i > 1 /\ (IsUpper(parts[i-1]) \/ IsLower(parts[i-1]))
    IN  [i \in DOMAIN parts |->
            IF cased(i) THEN LowerChar(parts[i]) ELSE UpperChar(parts[i])]

----------------------------------------------------------------------------
(* Data model *)

SUPPORTED_SCHEMA_VERSION == 1

DEFAULT_MODS_DIR == "mods"

DisabledLocation == "mods-disabled"

Locations == {DEFAULT_MODS_DIR, DisabledLocation}

\* ModHashes with only the locally computed digest
ModHashes(sha256) ==
    [sha256 |-> sha256, sha512 |-> None, sha1 |-> None, md5 |-> None]

\* ModSource: every field but the type defaults to None
ModSource(type, path, notes) ==
    [type |-> type, path |-> path, url |-> None, project_id |-> None,
     version_id |-> None, slug |-> None, download_url |-> None,
     notes |-> notes]

\* ModEntry as add_mod and _adopt_existing_mods construct it
ModEntry(id, name, filename, enabled, loader, mc_version, version, installed_at, source, hashes) ==
    [id |-> id, name |-> name, side |-> "server", enabled |-> enabled,
     filename |-> filename, source |-> source, version |-> version,
     mc_version |-> mc_version, loader |-> loader,
     installed_at |-> installed_at, hashes |-> hashes, notes |-> None]

ModManifest(loader, minecraft_version, mods_dir) ==
    [schema_version |-> SUPPORTED_SCHEMA_VERSION, loader |-> loader,
     minecraft_version |-> minecraft_version, mods_dir |-> mods_dir,
     mods |-> <<>>]

\* mutant: an unknown id finds the first entry
Find_FirstIfUnknown(m, mod_id) ==
    LET hits == {i \in DOMAIN m.mods : m.mods[i].id = mod_id}
    IN  IF hits = {} THEN (IF m.mods = <<>> THEN 0 ELSE 1)
        ELSE CHOOSE i \in hits : \A j \in hits : i <= j

\* ModManifest.find: the index of the first entry with the id, 0 when there
\* is none (the code raises ManifestError)
Find(m, mod_id) ==
    LET hits == {i \in DOMAIN m.mods : m.mods[i].id = mod_id}
    IN  IF hits = {} THEN 0 ELSE CHOOSE i \in hits : \A j \in hits : i <= j

\* mutant: the duplicate check is lost
IdTaken_Never(m, mod_id) == FALSE

\* ModManifest.add: whether the id is taken (the code then raises)
IdTaken(m, mod_id) == \E i \in DOMAIN m.mods : m.mods[i].id = mod_id

\* mutant: adding stamps every entry with the time of the new one
ManifestAdd_Restamp(m, entry) ==
    [m EXCEPT !.mods = [i \in DOMAIN m.mods |->
                          [m.mods[i] EXCEPT !.installed_at = entry.installed_at]]
                       \o <<entry>>]

\* ModManifest.add on a free id
ManifestAdd(m, entry) == [m EXCEPT !.mods = Append(m.mods, entry)]

\* ModManifest.remove: every entry with another id, in order
RECURSIVE FilterOutId(_, _)
FilterOutId(mods, mod_id) ==
    IF mods = <<>> THEN <<>>
    ELSE IF Head(mods).id = mod_id THEN FilterOutId(Tail(mods), mod_id)
    ELSE <<Head(mods)>> \o FilterOutId(Tail(mods), mod_id)

ManifestRemove(m, mod_id) == [m EXCEPT !.mods = FilterOutId(m.mods, mod_id)]

----------------------------------------------------------------------------
(* Manifest store: model_dump_json(exclude_none=True) and model_validate *)

HashesOptional == {"sha256", "sha512", "sha1", "md5"}

SourceOptional ==
    {"path", "url", "project_id", "version_id", "slug", "download_url", "notes"}

EntryOptional ==
    {"name", "version", "mc_version", "loader", "installed_at", "hashes", "notes"}

ManifestOptional == {"loader", "minecraft_version"}

\* exclude_none: an optional field that is None is left out of the JSON
\* object, every other field is written with its value
ExcludeNone(rec, optional) ==
    [k \in {x \in DOMAIN rec : ~(x \in optional /\ rec[x] = None)} |->
        IF k \in optional THEN rec[k][1] ELSE rec[k]]

DumpEntry(e) ==
    ExcludeNone(
        [e EXCEPT !.source = ExcludeNone(e.source, SourceOptional),
                  !.hashes = IF e.hashes = None THEN None
                             ELSE Some(ExcludeNone(e.hashes[1], HashesOptional))],
        EntryOptional)

\* the JSON document save_manifest writes
DumpManifest(m) ==
    ExcludeNone([m EXCEPT !.mods = [i \in DOMAIN m.mods |-> DumpEntry(m.mods[i])]],
                ManifestOptional)

\* mutant: the optional fields of the JSON are not read
Validate_DropsOptional(doc, defaults, optional) ==
    [k \in DOMAIN defaults |->
        IF k \in DOMAIN doc /\ k \notin optional THEN doc[k] ELSE defaults[k]]

\* model_validate of one object: a key of the JSON is taken, a missing key
\* gets the field's default
Validate(doc, defaults, optional) ==
    [k \in DOMAIN defaults |->
        IF k \in DOMAIN doc
        THEN (IF k \in optional THEN Some(doc[k]) ELSE doc[k])
        ELSE defaults[k]]

EntryDefaults ==
    [id |-> <<>>, name |-> None, side |-> "server", enabled |-> TRUE,
     filename |-> <<>>, source |-> ModSource("local", None, None),
     version |-> None, mc_version |-> None, loader |-> None,
     installed_at |-> None, hashes |-> None, notes |-> None]

ParseEntry(doc) ==
    LET e == Validate(doc, EntryDefaults, EntryOptional)
    IN  [e EXCEPT
            !.source = IF "source" \in DOMAIN doc
                       THEN Validate(doc["source"], ModSource("local", None, None),
                                     SourceOptional)
                       ELSE e.source,
            !.hashes = IF "hashes" \in DOMAIN doc
                       THEN Some(Validate(doc["hashes"], ModHashes(None),
                                          HashesOptional))
                       ELSE None]

\* ModManifest.model_validate(json.loads(text))
ParseManifest(doc) ==
    LET m == Validate(doc, ModManifest(None, None, DEFAULT_MODS_DIR),
                      ManifestOptional)
    IN  [m EXCEPT !.mods = IF "mods" \in DOMAIN doc
                           THEN [i \in DOMAIN doc["mods"] |->
                                    ParseEntry(doc["mods"][i])]
                           ELSE <<>>]

\* mutant: the schema version is not looked at
LoadManifest_AnyVersion(file) ==
    IF file = None THEN [ok |-> FALSE, manifest |-> None]
    ELSE [ok |-> TRUE, manifest |-> Some(ParseManifest(file[1]))]

\* the name of the manifest file in the enabled directory
MANIFEST_FILENAME == <<".","m","s","c","m","o","d","s",".","j","s","o","n">>

\* a manifest file that holds the bytes of a mod file: no JSON text
NotJson(content) == [bytes |-> content]

\* load_manifest: [ok, manifest]; it fails when the file is absent, when
\* json.loads raises on it, or when its schema version is not the supported
\* one
LoadManifest(file) ==
    IF file = None THEN [ok |-> FALSE, manifest |-> None]
    ELSE IF "bytes" \in DOMAIN file[1] THEN [ok |-> FALSE, manifest |-> None]
    ELSE LET m == ParseManifest(file[1])
         IN  IF m.schema_version # SUPPORTED_SCHEMA_VERSION
             THEN [ok |-> FALSE, manifest |-> None]
             ELSE [ok |-> TRUE, manifest |-> Some(m)]

\* save_manifest: the new content of the manifest file
SaveManifest(m) == Some(DumpManifest(m))

----------------------------------------------------------------------------
(* Filesystem: the enabled and the disabled directory *)

NoEntry == [kind |-> "none", content |-> ""]

RegularFile(content) == [kind |-> "file", content |-> content]

Directory == [kind |-> "dir", content |-> ""]

ModSuffixes == { <<".","j","a","r">>, <<".","z","i","p">> }

\* a path: the directory it is in and its file name
PathIn(location, name) == [dir |-> location, name |-> name]

\* Path.exists()
Exists(fsx, location, name) ==
    /\ fsx[location].exists
    /\ name \in DOMAIN fsx[location].files
    /\ fsx[location].files[name].kind # "none"

\* _iter_mod_files: the regular files of the directory with suffix .jar or
\* .zip; nothing when the directory does not exist
IterModFiles(fsx, location) ==
    IF ~fsx[location].exists THEN {}
    ELSE {n \in DOMAIN fsx[location].files :
            /\ fsx[location].files[n].kind = "file"
            /\ Suffix(n) \in ModSuffixes}

\* the orders in which directory.iterdir() may list a set of files
Orders(S) ==
    {o \in [1..Cardinality(S) -> S] : \A i, j \in DOMAIN o : o[i] = o[j] => i = j}

\* _sha256: the digest of a file's content
Sha256(content) == <<"sha256:", content>>

\* ensure_directories: both directories exist afterwards
EnsureDirectories(fsx) == [l \in DOMAIN fsx |-> [fsx[l] EXCEPT !.exists = TRUE]]

\* shutil.move / shutil.copyfile target: the file now holds the content
WriteFile(fsx, location, name, content) ==
    [fsx EXCEPT ![location].exists = TRUE,
                ![location].files[name] = RegularFile(content)]

\* mutant: the directory is emptied
DeleteFile_WholeDirectory(fsx, location, name) ==
    [fsx EXCEPT ![location].files = [n \in DOMAIN @ |-> NoEntry]]

\* Path.unlink, and the source side of shutil.move
DeleteFile(fsx, location, name) ==
    [fsx EXCEPT ![location].files[name] = NoEntry]

\* mutant: every file of the source directory is moved along
MoveFile_WholeDirectory(fsx, from, to, name) ==
    [fsx EXCEPT ![to].exists = TRUE,
                ![to].files = [n \in DOMAIN @ |->
                                 IF fsx[from].files[n] # NoEntry
                                 THEN fsx[from].files[n] ELSE @[n]],
                ![from].files = [n \in DOMAIN @ |-> NoEntry]]

\* mutant: the file is copied, the source stays
MoveFile_Copy(fsx, from, to, name) ==
    [fsx EXCEPT ![to].exists = TRUE,
                ![to].files[name] = fsx[from].files[name]]

\* shutil.move(src, dst) of an existing source file onto a destination that
\* is absent or a regular file: the destination is replaced
MoveFile(fsx, from, to, name) ==
    [fsx EXCEPT ![to].exists = TRUE,
                ![to].files[name] = fsx[from].files[name],
                ![from].files[name] = NoEntry]

----------------------------------------------------------------------------
(* Reconciliation engine *)

ModFile(filename, location, sha256) ==
    [filename |-> filename, path |-> PathIn(location, filename),
     location |-> location, sha256 |-> sha256]

\* mutant: a key already present keeps its value
DictSet_KeepFirst(d, key, value) ==
    IF \E i \in DOMAIN d : d[i].key = key THEN d
    ELSE Append(d, [key |-> key, value |-> value])

\* files[key] = value on a Python dict, kept as the sequence of its items:
\* a key already present keeps its place and takes the new value
DictSet(d, key, value) ==
    IF \E i \in DOMAIN d : d[i].key = key
    THEN [i \in DOMAIN d |-> IF d[i].key = key
                             THEN [key |-> key, value |-> value] ELSE d[i]]
    ELSE Append(d, [key |-> key, value |-> value])

\* mutant: the key is read and left in the dict
DictDrop_Keep(d, key) == d

\* dict.pop(key, None): the dict without the key
DictDrop(d, key) == SelectSeq(d, LAMBDA item : item.key # key)

\* dict.get(key): Some(value) or None
DictGet(d, key) ==
    IF \E i \in DOMAIN d : d[i].key = key
    THEN Some(d[CHOOSE i \in DOMAIN d : d[i].key = key].value)
    ELSE None

\* one loop of _scan_files over the files of a directory, in listing order
RECURSIVE ScanInto(_, _, _, _)
ScanInto(files, fsx, location, order) ==
    IF order = <<>> THEN files
    ELSE ScanInto(
            DictSet(files, Head(order),
                    ModFile(Head(order), location,
                            Sha256(fsx[location].files[Head(order)].content))),
            fsx, location, Tail(order))

\* mutant: the disabled directory is scanned first, so the enabled copy wins
ScanFiles_DisabledFirst(fsx, orderMods, orderDisabled) ==
    ScanInto(ScanInto(<<>>, fsx, DisabledLocation, orderDisabled),
             fsx, DEFAULT_MODS_DIR, orderMods)

\* _scan_files: the enabled directory first, then the disabled directory
ScanFiles(fsx, orderMods, orderDisabled) ==
    ScanInto(ScanInto(<<>>, fsx, DEFAULT_MODS_DIR, orderMods),
             fsx, DisabledLocation, orderDisabled)

\* mutant: the observed digest is never compared
EntryStatus_NoHash(entry, file_info) ==
    [entry |-> entry,
     location |-> IF file_info # None THEN Some(file_info[1].location) ELSE None,
     present |-> file_info # None,
     hash_ok |-> None]

\* the ManifestEntryStatus inventory builds for one entry
EntryStatus(entry, file_info) ==
    LET present == file_info # None
    IN  [entry |-> entry,
         location |-> IF present THEN Some(file_info[1].location) ELSE None,
         present |-> present,
         hash_ok |-> IF /\ present
                        /\ entry.hashes # None
                        /\ entry.hashes[1].sha256 # None
                        /\ entry.hashes[1].sha256[1] # <<>>
                     THEN Some(file_info[1].sha256 = entry.hashes[1].sha256[1])
                     ELSE None]

\* mutant: an entry whose file is not found gets no status
RECURSIVE InventoryLoop_SkipMissing(_, _, _)
InventoryLoop_SkipMissing(mods, remaining_files, statuses) ==
    IF mods = <<>>
    THEN [entries |-> statuses,
          extras |-> [i \in DOMAIN remaining_files |-> remaining_files[i].value]]
    ELSE IF DictGet(remaining_files, Head(mods).filename) = None
    THEN InventoryLoop_SkipMissing(Tail(mods), remaining_files, statuses)
    ELSE InventoryLoop_SkipMissing(
            Tail(mods),
            DictDrop(remaining_files, Head(mods).filename),
            Append(statuses,
                   EntryStatus(Head(mods),
                               DictGet(remaining_files, Head(mods).filename))))

\* the loop of inventory over manifest.mods
RECURSIVE InventoryLoop(_, _, _)
InventoryLoop(mods, remaining_files, statuses) ==
    IF mods = <<>>
    THEN [entries |-> statuses,
          extras |-> [i \in DOMAIN remaining_files |-> remaining_files[i].value]]
    ELSE InventoryLoop(
            Tail(mods),
            DictDrop(remaining_files, Head(mods).filename),
            Append(statuses,
                   EntryStatus(Head(mods),
                               DictGet(remaining_files, Head(mods).filename))))

\* inventory, on the directories as ensure_directories left them
Inventory(m, fsx, orderMods, orderDisabled) ==
    InventoryLoop(m.mods, ScanFiles(fsx, orderMods, orderDisabled), <<>>)

\* mutant: the hash is looked at before the location
Status_HashFirst(st) ==
    IF ~st.present THEN "missing"
    ELSE IF st.hash_ok = Some(FALSE) THEN "hash-mismatch"
    ELSE IF st.entry.enabled /\ st.location # Some(DEFAULT_MODS_DIR) THEN "moved"
    ELSE IF ~st.entry.enabled /\ st.location # Some(DisabledLocation) THEN "moved"
    ELSE "ok"

\* ManifestEntryStatus.status
Status(st) ==
    IF ~st.present THEN "missing"
    ELSE IF st.entry.enabled /\ st.location # Some(DEFAULT_MODS_DIR) THEN "moved"
    ELSE IF ~st.entry.enabled /\ st.location # Some(DisabledLocation) THEN "moved"
    ELSE IF st.hash_ok = Some(FALSE) THEN "hash-mismatch"
    ELSE "ok"

CountStatus(inv, status) ==
    Cardinality({i \in DOMAIN inv.entries : Status(inv.entries[i]) = status})

\* Inventory.summary
Summary(inv) ==
    [total |-> Len(inv.entries),
     ok |-> CountStatus(inv, "ok"),
     missing |-> CountStatus(inv, "missing"),
     moved |-> CountStatus(inv, "moved"),
     hash_mismatch |-> CountStatus(inv, "hash-mismatch"),
     extras |-> Len(inv.extras)]

----------------------------------------------------------------------------
(* Manifest operations.  Each XxxCall computes what the call leaves behind: *)
(* [ok, manifest, disk, fs, ret]; ok = FALSE is a raised ManifestError.    *)

Outcome(ok, m, file, fsx, ret) ==
    [ok |-> ok, manifest |-> m, disk |-> file, fs |-> fsx, ret |-> ret]

\* one entry of _adopt_existing_mods
AdoptedEntry(m, file, fsx, now) ==
    ModEntry(DeriveModId(file), Some(Stem(file)), file, TRUE,
             m.loader, m.minecraft_version, None, Some(now),
             ModSource("local", Some(PathIn(DEFAULT_MODS_DIR, file)), None),
             Some(ModHashes(Some(Sha256(fsx[DEFAULT_MODS_DIR].files[file].content)))))

\* _adopt_existing_mods: [manifest, adopted]; an entry whose id is taken is
\* skipped (the ManifestError of ModManifest.add is caught)
RECURSIVE AdoptLoop(_, _, _, _, _)
AdoptLoop(m, adopted, order, fsx, now) ==
    IF order = <<>> THEN [manifest |-> m, adopted |-> adopted]
    ELSE LET entry == AdoptedEntry(m, Head(order), fsx, now)
         IN  IF IdTaken(m, entry.id)
             THEN AdoptLoop(m, adopted, Tail(order), fsx, now)
             ELSE AdoptLoop(ManifestAdd(m, entry), Append(adopted, entry),
                            Tail(order), fsx, now)

AdoptExistingMods(m, order, fsx, now) == AdoptLoop(m, <<>>, order, fsx, now)

\* the manifest init_manifest starts from
FreshManifest(c) ==
    ModManifest(IF c.server_type # <<>> THEN Some(Lower(c.server_type)) ELSE None,
                Some(c.minecraft_version), DEFAULT_MODS_DIR)

\* mutant: an existing manifest file is overwritten without force
InitManifestCall_NoExistsCheck(c, m, file, fsx, force, adopt_existing, order, now) ==
    LET fs1 == EnsureDirectories(fsx)
        got == IF adopt_existing
               THEN AdoptExistingMods(FreshManifest(c), order, fs1, now)
               ELSE [manifest |-> FreshManifest(c), adopted |-> <<>>]
    IN  Outcome(TRUE, Some(got.manifest), SaveManifest(got.manifest), fs1,
                Len(got.adopted))

\* init_manifest(cfg, force, adopt_existing); order is the listing order of
\* the enabled directory; ret is the adopted count
InitManifestCall(c, m, file, fsx, force, adopt_existing, order, now) ==
    IF file # None /\ ~force THEN Outcome(FALSE, m, file, fsx, 0)
    ELSE LET fs1 == EnsureDirectories(fsx)
             got == IF adopt_existing
                    THEN AdoptExistingMods(FreshManifest(c), order, fs1, now)
                    ELSE [manifest |-> FreshManifest(c), adopted |-> <<>>]
         IN  Outcome(TRUE, Some(got.manifest), SaveManifest(got.manifest), fs1,
                     Len(got.adopted))

\* mutant: no early return when the entry already has the flag
SetEnabledCall_NoEarlyReturn(m, file, fsx, mod_id, enabled, move_files) ==
    LET fs1 == EnsureDirectories(fsx)
        i == Find(m, mod_id)
    IN  IF i = 0 THEN Outcome(FALSE, Some(m), file, fs1, None)
        ELSE LET src_dir == IF enabled THEN DisabledLocation ELSE DEFAULT_MODS_DIR
                 dst_dir == IF enabled THEN DEFAULT_MODS_DIR ELSE DisabledLocation
                 name == m.mods[i].filename
                 fs2 == IF move_files /\ Exists(fs1, src_dir, name)
                        THEN MoveFile(fs1, src_dir, dst_dir, name)
                        ELSE fs1
                 m2 == [m EXCEPT !.mods[i].enabled = enabled]
             IN  Outcome(TRUE, Some(m2), SaveManifest(m2), fs2, Some(m2.mods[i]))

\* mutant: a flag change fails when the file to move is absent
SetEnabledCall_FailIfAbsent(m, file, fsx, mod_id, enabled, move_files) ==
    LET fs1 == EnsureDirectories(fsx)
        i == Find(m, mod_id)
    IN  IF i = 0 THEN Outcome(FALSE, Some(m), file, fs1, None)
        ELSE IF m.mods[i].enabled = enabled
        THEN Outcome(TRUE, Some(m), file, fs1, Some(m.mods[i]))
        ELSE LET src_dir == IF enabled THEN DisabledLocation ELSE DEFAULT_MODS_DIR
                 dst_dir == IF enabled THEN DEFAULT_MODS_DIR ELSE DisabledLocation
                 name == m.mods[i].filename
                 m2 == [m EXCEPT !.mods[i].enabled = enabled]
             IN  IF move_files /\ ~Exists(fs1, src_dir, name)
                 THEN Outcome(FALSE, Some(m), file, fs1, None)
                 ELSE Outcome(TRUE, Some(m2), SaveManifest(m2),
                              IF move_files THEN MoveFile(fs1, src_dir, dst_dir, name)
                              ELSE fs1,
                              Some(m2.mods[i]))

\* set_enabled(cfg, manifest, mod_id, enabled, move_files); ret is the entry
SetEnabledCall(m, file, fsx, mod_id, enabled, move_files) ==
    LET fs1 == EnsureDirectories(fsx)
        i == Find(m, mod_id)
    IN  IF i = 0 THEN Outcome(FALSE, Some(m), file, fs1, None)
        ELSE IF m.mods[i].enabled = enabled
        THEN Outcome(TRUE, Some(m), file, fs1, Some(m.mods[i]))
        ELSE LET src_dir == IF enabled THEN DisabledLocation ELSE DEFAULT_MODS_DIR
                 dst_dir == IF enabled THEN DEFAULT_MODS_DIR ELSE DisabledLocation
                 name == m.mods[i].filename
                 fs2 == IF move_files /\ Exists(fs1, src_dir, name)
                        THEN MoveFile(fs1, src_dir, dst_dir, name)
                        ELSE fs1
                 m2 == [m EXCEPT !.mods[i].enabled = enabled]
             IN  Outcome(TRUE, Some(m2), SaveManifest(m2), fs2, Some(m2.mods[i]))

\* mutant: only the enabled directory is looked at
CandidatePaths_EnabledOnly(fsx, name) ==
    SelectSeq(<<PathIn(DEFAULT_MODS_DIR, name)>>,
              LAMBDA p : Exists(fsx, p.dir, p.name))

\* the paths remove_mod deletes: the entry's file name in the enabled, then
\* in the disabled directory
CandidatePaths(fsx, name) ==
    SelectSeq(<<PathIn(DEFAULT_MODS_DIR, name), PathIn(DisabledLocation, name)>>,
              LAMBDA p : Exists(fsx, p.dir, p.name))

RECURSIVE Unlink(_, _)
Unlink(fsx, paths) ==
    IF paths = <<>> THEN fsx
    ELSE Unlink(DeleteFile(fsx, Head(paths).dir, Head(paths).name), Tail(paths))

\* remove_mod(cfg, manifest, mod_id, remove_files); ret is (entry, deleted)
RemoveModCall(m, file, fsx, mod_id, remove_files) ==
    LET fs1 == EnsureDirectories(fsx)
        i == Find(m, mod_id)
    IN  IF i = 0
        THEN Outcome(FALSE, Some(m), file, fs1, [entry |-> None, deleted |-> <<>>])
        ELSE LET deleted == IF remove_files
                            THEN CandidatePaths(fs1, m.mods[i].filename)
                            ELSE <<>>
                 m2 == ManifestRemove(m, mod_id)
             IN  Outcome(TRUE, Some(m2), SaveManifest(m2), Unlink(fs1, deleted),
                         [entry |-> Some(m.mods[i]), deleted |-> deleted])

\* the loop of purge_mods over list(manifest.mods); it stops at the first
\* removal that raises
RECURSIVE PurgeLoop(_, _, _, _, _, _, _)
PurgeLoop(todo, m, file, fsx, remove_files, removed_count, deleted) ==
    IF todo = <<>>
    THEN Outcome(TRUE, Some(m), file, fsx,
                 [removed_count |-> removed_count, deleted |-> deleted])
    ELSE LET r == RemoveModCall(m, file, fsx, Head(todo).id, remove_files)
         IN  IF ~r.ok
             THEN Outcome(FALSE, r.manifest, r.disk, r.fs,
                          [removed_count |-> removed_count, deleted |-> deleted])
             ELSE PurgeLoop(Tail(todo), r.manifest[1], r.disk, r.fs, remove_files,
                            removed_count + 1, deleted \o r.ret.deleted)

\* mutant: the loop runs over the list it shrinks, so every second entry is
\* skipped
PurgeModsCall_LiveList(m, file, fsx, remove_files) ==
    PurgeLoop([k \in 1..((Len(m.mods) + 1) \div 2) |-> m.mods[2 * k - 1]],
              m, file, EnsureDirectories(fsx), remove_files, 0, <<>>)

\* purge_mods(cfg, manifest, remove_files); ret is (removed_count, deleted)
PurgeModsCall(m, file, fsx, remove_files) ==
    PurgeLoop(m.mods, m, file, EnsureDirectories(fsx), remove_files, 0, <<>>)

----------------------------------------------------------------------------
(* add_mod and the source resolvers *)

\* mutant: the empty text counts as a value
Truthy_NotNone(opt) == opt # None

\* Python truth of an Optional[str]
Truthy(opt) == opt # None /\ opt[1] # <<>>

StartsWith(s, prefix) ==
    Len(s) >= Len(prefix) /\ SubSeq(s, 1, Len(prefix)) = prefix

P_modrinth == <<"m","o","d","r","i","n","t","h",":">>

P_mr == <<"m","r",":">>

P_curseforge == <<"c","u","r","s","e","f","o","r","g","e",":">>

P_cf == <<"c","f",":">>

P_http == <<"h","t","t","p",":","/","/">>

P_https == <<"h","t","t","p","s",":","/","/">>

SourceTypes == {"local", "url", "modrinth", "curseforge", "custom"}

\* the last component of a path text
Basename(text) ==
    LET slashes == {i \in DOMAIN text : text[i] = "/"}
        cut == IF slashes = {} THEN 0
               ELSE CHOOSE i \in slashes : \A j \in slashes : j <= i
    IN  SubSeq(text, cut + 1, Len(text))

\* the content of the file a source text names, None when no such file
\* exists: a file of one of the two directories, or a file elsewhere
SourceContent(source, fsx) ==
    IF source.dir \in Locations
    THEN IF Exists(fsx, source.dir, Basename(source.text))
         THEN Some(fsx[source.dir].files[Basename(source.text)].content)
         ELSE None
    ELSE source.file

\* _infer_source_type
InferSourceType(source, fsx) ==
    LET lowered == Lower(source.text)
    IN  IF StartsWith(lowered, P_modrinth) \/ StartsWith(lowered, P_mr)
        THEN "modrinth"
        ELSE IF StartsWith(lowered, P_curseforge) \/ StartsWith(lowered, P_cf)
        THEN "curseforge"
        ELSE IF StartsWith(source.text, P_http) \/ StartsWith(source.text, P_https)
        THEN "url"
        ELSE IF SourceContent(source, fsx) # None THEN "local"
        ELSE "custom"

\* str.split(sep, 1): the text before and after the first separator
SplitOnce(text, sep) ==
    LET at == {i \in DOMAIN text : text[i] = sep}
        i == CHOOSE k \in at : \A j \in at : k <= j
    IN  <<SubSeq(text, 1, i - 1), SubSeq(text, i + 1, Len(text))>>

\* _normalize_source_identifier: [target, inline_version]
NormalizeSourceIdentifier(text, source_type) ==
    LET lowered == Lower(text)
        prefixes == IF source_type = "modrinth" THEN {P_modrinth, P_mr}
                    ELSE IF source_type = "curseforge" THEN {P_curseforge, P_cf}
                    ELSE {}
        target == IF \E q \in prefixes : StartsWith(lowered, q)
                  THEN SplitOnce(text, ":")[2] ELSE text
    IN  IF source_type \in {"modrinth", "curseforge"} /\ "@" \in Range(target)
        THEN [target |-> SplitOnce(target, "@")[1],
              inline_version |-> Some(SplitOnce(target, "@")[2])]
        ELSE [target |-> target, inline_version |-> None]

\* str.strip() of blanks
RECURSIVE StripBlanks(_)
StripBlanks(s) ==
    IF s = <<>> THEN <<>>
    ELSE IF Head(s) = " " THEN StripBlanks(Tail(s))
    ELSE IF s[Len(s)] = " " THEN StripBlanks(SubSeq(s, 1, Len(s) - 1))
    ELSE s

S_paper == <<"p","a","p","e","r">>

S_purpur == <<"p","u","r","p","u","r">>

S_spigot == <<"s","p","i","g","o","t">>

\* _loader_from_config: purpur and spigot map to paper, any other key to
\* itself, an empty key to None
LoaderFromConfig(c) ==
    IF c.server_type = <<>> THEN None
    ELSE LET key == Lower(StripBlanks(c.server_type))
         IN  IF key \in {S_purpur, S_spigot} THEN Some(S_paper)
             ELSE IF key # <<>> THEN Some(key) ELSE None

\* _normalize_version_list(resolved.mc_versions or resolved.mc_version)
NormalizeVersionList(mc_versions, mc_version) ==
    IF mc_versions # None /\ mc_versions[1] # <<>>
    THEN SelectSeq(mc_versions[1], LAMBDA v : v # <<>>)
    ELSE IF Truthy(mc_version) THEN <<mc_version[1]>> ELSE <<>>

\* a raised ManifestError: which raise statement it comes from and the
\* values its message interpolates, in the order of the message
ManifestError(kind, parts) == [kind |-> kind, parts |-> parts]

\* mutant: only the first text is written
JoinComma_FirstOnly(texts) == IF texts = <<>> THEN <<>> ELSE texts[1]

\* ", ".join(texts)
RECURSIVE JoinComma(_)
JoinComma(texts) ==
    IF texts = <<>> THEN <<>>
    ELSE IF Len(texts) = 1 THEN texts[1]
    ELSE texts[1] \o <<",", " ">> \o JoinComma(Tail(texts))

\* mutant: the loaders are compared as written
AssertVersionCompatibility_ExactLoader(mod_identifier, resolved_loader, resolved_mc_versions, preferred_loader, preferred_mc_version) ==
    IF /\ Truthy(preferred_loader) /\ Truthy(resolved_loader)
       /\ preferred_loader[1] # resolved_loader[1]
    THEN Some(ManifestError("loader", <<mod_identifier, resolved_loader[1],
                                        preferred_loader[1]>>))
    ELSE IF /\ Truthy(preferred_mc_version)
            /\ resolved_mc_versions # <<>>
            /\ Lower(preferred_mc_version[1]) \notin
                  {Lower(v) : v \in Range(resolved_mc_versions)}
    THEN Some(ManifestError("mc_version",
                            <<mod_identifier, JoinComma(resolved_mc_versions),
                              preferred_mc_version[1]>>))
    ELSE None

\* _assert_version_compatibility: the error it raises, None when it
\* returns; the loader is checked first, then the Minecraft version
AssertVersionCompatibility(mod_identifier, resolved_loader, resolved_mc_versions, preferred_loader, preferred_mc_version) ==
    IF /\ Truthy(preferred_loader) /\ Truthy(resolved_loader)
       /\ Lower(preferred_loader[1]) # Lower(resolved_loader[1])
    THEN Some(ManifestError("loader", <<mod_identifier, resolved_loader[1],
                                        preferred_loader[1]>>))
    ELSE IF /\ Truthy(preferred_mc_version)
            /\ resolved_mc_versions # <<>>
            /\ Lower(preferred_mc_version[1]) \notin
                  {Lower(v) : v \in Range(resolved_mc_versions)}
    THEN Some(ManifestError("mc_version",
                            <<mod_identifier, JoinComma(resolved_mc_versions),
                              preferred_mc_version[1]>>))
    ELSE None

ResolvedMod(filename, source, hashes, mod_id, name) ==
    [filename |-> filename, source |-> source, hashes |-> hashes,
     mod_id |-> mod_id, name |-> name, version |-> None, loader |-> None,
     mc_version |-> None, mc_versions |-> None]

\* a resolver that raised: nothing was written
ResolveFailed(fsx) ==
    [ok |-> FALSE, fs |-> fsx, manifest_file |-> None, resolved |-> None]

\* a resolver writes content to mods_directory / filename: [fs,
\* manifest_file].  The manifest file lies in that directory, so a file of
\* its name is written over it: manifest_file is then what the manifest file
\* holds, and None when it was not touched
WriteDest(fsx, filename, content) ==
    IF filename = MANIFEST_FILENAME
    THEN [fs |-> fsx, manifest_file |-> Some(NotJson(content))]
    ELSE [fs |-> WriteFile(fsx, DEFAULT_MODS_DIR, filename, content),
          manifest_file |-> None]

\* LocalSourceResolver.resolve: [ok, fs, manifest_file, resolved]; the file
\* is copied into the enabled directory unless it is the source itself
LocalResolve(req, fsx) ==
    LET content == SourceContent(req.source, fsx)
        filename == OrElse(req.filename_override, Some(Basename(req.source.text)))
    IN  IF content = None \/ ~Truthy(filename)
        THEN ResolveFailed(fsx)
        ELSE LET same == /\ req.source.dir = DEFAULT_MODS_DIR
                         /\ Basename(req.source.text) = filename[1]
                 dest == IF same THEN [fs |-> fsx, manifest_file |-> None]
                         ELSE WriteDest(fsx, filename[1], content[1])
             IN  [ok |-> TRUE, fs |-> dest.fs, manifest_file |-> dest.manifest_file,
                  resolved |->
                    Some(ResolvedMod(
                        filename[1],
                        ModSource("local",
                                  Some(PathIn(req.source.dir,
                                              Basename(req.source.text))), None),
                        Some(ModHashes(Some(Sha256(content[1])))),
                        OrElse(req.suggested_mod_id, Some(DeriveModId(filename[1]))),
                        req.suggested_name))]

\* _first_or_none
FirstOrNone(values) == IF values = <<>> THEN None ELSE Some(values[1])

\* the first of the positions where a loop over a sequence stops, 0 when
\* it runs to the end
FirstOf(hits) ==
    IF hits = {} THEN 0 ELSE CHOOSE i \in hits : \A j \in hits : i <= j

RELEASE_TYPES == <<"release", "beta", "alpha">>

\* the loop over ("release", "beta", "alpha") of _resolve_version, from the
\* a selection that takes the head of the list whatever its channel
FirstOfChannels_ListOrder(versions, k) == versions[1]

\* k-th channel on: the first version of the first channel that has one
RECURSIVE FirstOfChannels(_, _)
FirstOfChannels(versions, k) ==
    IF k > Len(RELEASE_TYPES) THEN versions[1]
    ELSE LET i == FirstOf({j \in DOMAIN versions :
                              versions[j].version_type = RELEASE_TYPES[k]})
         IN  IF i # 0 THEN versions[i] ELSE FirstOfChannels(versions, k + 1)

\* ModrinthResolver._resolve_version: None when it raises.  The registry's
\* answers are registry.by_hint (GET /version/{hint}, None when that request
\* fails) and registry.versions (the filtered version query).
ResolveVersion(registry, project, req) ==
    LET hint == req.version_hint
        versions == registry.versions
        named == FirstOf({i \in DOMAIN versions :
                            Some(versions[i].version_number) = hint})
    IN  IF /\ Truthy(hint)
           /\ registry.by_hint # None
           /\ registry.by_hint[1].project_id = project.id
        THEN registry.by_hint
        ELSE IF versions = <<>> THEN None
        ELSE IF Truthy(hint) /\ named # 0 THEN Some(versions[named])
        ELSE Some(FirstOfChannels(versions, 1))

\* ModrinthResolver._select_file: the first primary file, else the first
\* file, None when the version has no file (the code raises)
SelectFile(version) ==
    LET primary == FirstOf({i \in DOMAIN version.files :
                              version.files[i].primary})
    IN  IF version.files = <<>> THEN None
        ELSE IF primary # 0 THEN Some(version.files[primary])
        ELSE Some(version.files[1])

\* ModrinthResolver.resolve: [ok, fs, manifest_file, resolved].  The project is
\* registry.project (None when the request fails); the selected file is
\* downloaded into the enabled directory, file.content being what the
\* download URL serves (None when the download fails).
ModrinthResolve(req, fsx) ==
    LET registry == req.source.registry
        identifier == req.source.text
        failed == ResolveFailed(fsx)
    IN  IF registry.project = None THEN failed
        ELSE
        LET project == registry.project[1]
            slug == OrElse(project.slug, Some(identifier))
            version == ResolveVersion(registry, project, req)
            file_data == IF version = None THEN None ELSE SelectFile(version[1])
        IN  IF version = None \/ file_data = None THEN failed
            ELSE
            LET filename == OrElse(req.filename_override, file_data[1].filename)
                download_url == file_data[1].url
            IN  IF ~Truthy(filename) \/ ~Truthy(download_url) THEN failed
                ELSE IF file_data[1].content = None THEN failed
                ELSE
                LET dest == WriteDest(fsx, filename[1], file_data[1].content[1])
                    loaders == version[1].loaders
                    mc_versions == version[1].game_versions
                    source == [ModSource("modrinth", None, None) EXCEPT
                                 !.url = OrElse(project.project_url,
                                                project.wiki_url),
                                 !.project_id = Some(project.id),
                                 !.version_id = Some(version[1].id),
                                 !.slug = slug,
                                 !.download_url = download_url]
                    hashes == [ModHashes(Some(Sha256(file_data[1].content[1])))
                                 EXCEPT !.sha512 = file_data[1].sha512,
                                        !.sha1 = file_data[1].sha1]
                IN  [ok |-> TRUE, fs |-> dest.fs,
                     manifest_file |-> dest.manifest_file,
                     resolved |->
                       Some([ResolvedMod(
                                filename[1], source, Some(hashes),
                                OrElse(req.suggested_mod_id, slug),
                                OrElse(req.suggested_name,
                                       OrElse(project.title, slug)))
                             EXCEPT
                               !.version = Some(version[1].version_number),
                               !.loader = OrElse(FirstOrNone(loaders),
                                                 req.preferred_loader),
                               !.mc_version = OrElse(FirstOrNone(mc_versions),
                                                     req.preferred_mc_version),
                               !.mc_versions = IF mc_versions = <<>> THEN None
                                               ELSE Some(mc_versions)])]

\* mutant: the custom type is served by the local resolver
Resolve_CustomAsLocal(source_type, req, fsx) ==
    CASE source_type \in {"local", "custom"} -> LocalResolve(req, fsx)
      [] source_type = "modrinth" -> ModrinthResolve(req, fsx)

\* get_source_resolver(type).resolve(request): no resolver is registered
\* for the custom type
Resolve(source_type, req, fsx) ==
    CASE source_type = "local" -> LocalResolve(req, fsx)
      [] source_type = "modrinth" -> ModrinthResolve(req, fsx)
      [] source_type = "custom" -> ResolveFailed(fsx)


\* mutant: loader and minecraft_version are set from the configuration
\* whether they are set or not
WithDefaults_Always(c, m) ==
    LET m1 == IF Truthy(LoaderFromConfig(c))
              THEN [m EXCEPT !.loader = LoaderFromConfig(c)] ELSE m
    IN  IF c.minecraft_version # <<>>
        THEN [m1 EXCEPT !.minecraft_version = Some(c.minecraft_version)]
        ELSE m1

\* the manifest after add_mod set its unset loader and minecraft_version
\* from the configuration (in memory, before anything else can fail)
WithDefaults(c, m) ==
    LET default_loader == OrElse(m.loader, LoaderFromConfig(c))
        m1 == IF m.loader = None /\ Truthy(default_loader)
              THEN [m EXCEPT !.loader = default_loader] ELSE m
    IN  IF m1.minecraft_version = None /\ c.minecraft_version # <<>>
        THEN [m1 EXCEPT !.minecraft_version = Some(c.minecraft_version)]
        ELSE m1

\* mutant: the enabled argument is dropped, the entry takes the default
NewEntry_DefaultEnabled(a, mod_id, target_filename, resolved, preferred_loader, preferred_mc_version, mod_source, hashes, now) ==
    ModEntry(mod_id,
             OrElse(a.name, OrElse(resolved.name, Some(HumanizeName(mod_id)))),
             target_filename, TRUE,
             OrElse(resolved.loader, preferred_loader),
             OrElse(resolved.mc_version, preferred_mc_version),
             resolved.version, Some(now), mod_source, hashes)

\* the entry add_mod constructs
NewEntry(a, mod_id, target_filename, resolved, preferred_loader, preferred_mc_version, mod_source, hashes, now) ==
    ModEntry(mod_id,
             OrElse(a.name, OrElse(resolved.name, Some(HumanizeName(mod_id)))),
             target_filename, a.enabled,
             OrElse(resolved.loader, preferred_loader),
             OrElse(resolved.mc_version, preferred_mc_version),
             resolved.version, Some(now), mod_source, hashes)

\* what manifest-only stands in for a resolver's result
ManifestOnlyResolved(a, source_type) ==
    ResolvedMod(IF a.filename_override = None THEN <<>> ELSE a.filename_override[1],
                ModSource(source_type, None, Some("Manifest entry only")),
                None, None, None)

\* the source type add_mod works with: the given one, else the inferred
SourceTypeOf(a, fsx) ==
    IF a.source_type = None THEN InferSourceType(a.source, fsx)
    ELSE a.source_type[1]

\* the SourceRequest add_mod hands to the resolver
SourceRequest(c, m, a, source_type) ==
    LET norm == NormalizeSourceIdentifier(a.source.text, source_type)
    IN  [source |-> [a.source EXCEPT !.text = norm.target],
         filename_override |-> a.filename_override,
         suggested_mod_id |-> a.mod_id,
         suggested_name |-> a.name,
         preferred_loader |->
            OrElse(a.loader_hint, OrElse(m.loader, LoaderFromConfig(c))),
         preferred_mc_version |->
            OrElse(a.mc_version_hint,
                   OrElse(m.minecraft_version, Some(c.minecraft_version))),
         version_hint |-> IF a.version_hint = None /\ Truthy(norm.inline_version)
                          THEN norm.inline_version ELSE a.version_hint]

\* add_mod(cfg, source, manifest, ...); ret is the new entry, or the error
\* raised
AddModCall(c, m, file, fsx, a, now) ==
    LET fs1 == EnsureDirectories(fsx)
        source_type == SourceTypeOf(a, fs1)
    IN  IF a.manifest_only /\ ~Truthy(a.filename_override)
        THEN Outcome(FALSE, Some(m), file, fs1,
                     Some(ManifestError("filename_required", <<>>)))
        ELSE IF source_type \notin SourceTypes
        THEN Outcome(FALSE, Some(m), file, fs1,
                     Some(ManifestError("source_type", <<source_type>>)))
        ELSE
        LET norm == NormalizeSourceIdentifier(a.source.text, source_type)
            m1 == WithDefaults(c, m)
            req == SourceRequest(c, m, a, source_type)
            preferred_loader == req.preferred_loader
            preferred_mc_version == req.preferred_mc_version
            got == IF a.manifest_only
                   THEN [ok |-> TRUE, fs |-> fs1, manifest_file |-> None,
                         resolved |-> Some(ManifestOnlyResolved(a, source_type))]
                   ELSE Resolve(source_type, req, fs1)
            file1 == IF got.manifest_file = None THEN file ELSE got.manifest_file
        IN  IF ~got.ok
            THEN Outcome(FALSE, Some(m1), file, got.fs,
                         Some(ManifestError("resolve", <<source_type>>)))
            ELSE
            LET resolved == got.resolved[1]
                incompatible ==
                    IF a.manifest_only THEN None
                    ELSE AssertVersionCompatibility(
                            OrElse(a.mod_id,
                                   OrElse(resolved.mod_id, Some(norm.target)))[1],
                            resolved.loader,
                            NormalizeVersionList(resolved.mc_versions,
                                                 resolved.mc_version),
                            preferred_loader, preferred_mc_version)
                target_filename == resolved.filename
                mod_id == OrElse(a.mod_id,
                                 OrElse(resolved.mod_id,
                                        Some(DeriveModId(target_filename))))[1]
            IN  IF incompatible # None
                THEN Outcome(FALSE, Some(m1), file1, got.fs, incompatible)
                ELSE IF target_filename = <<>>
                THEN Outcome(FALSE, Some(m1), file1, got.fs,
                             Some(ManifestError("target_filename", <<>>)))
                ELSE IF IdTaken(m1, mod_id)
                THEN Outcome(FALSE, Some(m1), file1, got.fs,
                             Some(ManifestError("duplicate", <<mod_id>>)))
                ELSE LET entry == NewEntry(a, mod_id, target_filename, resolved,
                                           preferred_loader, preferred_mc_version,
                                           resolved.source, resolved.hashes, now)
                         m2 == ManifestAdd(m1, entry)
                     IN  Outcome(TRUE, Some(m2), SaveManifest(m2), got.fs,
                                 Some(entry))

----------------------------------------------------------------------------
(* Bounds and input sets *)

\* calls per run
MaxClock == 1

\* file contents: two suffice to tell an equal digest from a different one
Contents == {"x", "y"}

F_a_jar == <<"a",".","j","a","r">>

F_A_zip == <<"A",".","z","i","p">>

F_b_jar == <<"b",".","j","a","r">>

F_n_txt == <<"n",".","t","x","t">>

F_d_jar == <<"d",".","j","a","r">>

\* the mod files of the runs; a.jar and A.zip derive the same id
FileNames == {F_a_jar, F_A_zip, F_b_jar}

\* every name a directory may hold: also a text file and a sub-directory
AllNames == FileNames \cup {F_n_txt, F_d_jar}

S_a == <<"a">>

S_b == <<"b">>

S_c == <<"c">>

S_FABRIC == <<"F","A","B","R","I","C">>

S_1_21 == <<"1",".","2","1">>

CfgChoices == { [server_type |-> S_FABRIC, minecraft_version |-> S_1_21] }

\* ids a caller names: a derives from a.jar and A.zip, b from b.jar, c from
\* no file
IdInputs == {S_a, S_b, S_c}

NoFiles == [n \in AllNames |-> NoEntry]

MissingDir == [exists |-> FALSE, files |-> NoFiles]

\* a directory holding the given regular files (name -> content) and, in
\* the enabled directory of a server, a text file and a sub-directory
DirOf(held, server) ==
    [exists |-> TRUE,
     files |-> [n \in AllNames |->
                  IF n \in DOMAIN held THEN RegularFile(held[n])
                  ELSE IF server /\ n = F_n_txt THEN RegularFile("x")
                  ELSE IF server /\ n = F_d_jar THEN Directory
                  ELSE NoEntry]]

MakeFs(enabledDir, disabledDir) ==
    [l \in Locations |-> IF l = DEFAULT_MODS_DIR THEN enabledDir ELSE disabledDir]

\* name -> content for the given names: a.jar with any content, the others
\* with content x
Held(nameSets) ==
    {[n \in S |-> IF n = F_a_jar THEN c ELSE "x"] : S \in nameSets, c \in Contents}

EnabledHoldings ==
    Held({X \cup Y : X \in SUBSET {F_a_jar},
                     Y \in {{}, {F_b_jar}, {F_b_jar, F_A_zip}}})

DisabledHoldings == Held(SUBSET {F_a_jar})

\* the directories as a run finds them: files placed by earlier calls or by
\* hand
Snapshots ==
    {MakeFs(DirOf(e, TRUE), DirOf(d, FALSE)) :
        e \in EnabledHoldings, d \in DisabledHoldings}

\* a data directory no call has touched yet
FreshSnapshots ==
    {MakeFs(MissingDir, MissingDir)}
    \cup {MakeFs(DirOf(e, TRUE), MissingDir) : e \in EnabledHoldings}

\* sources of add_mod: a path elsewhere that holds a file, or holds none
NoSuchFile == [text |-> F_a_jar, dir |-> "elsewhere", file |-> None]

AddSources ==
    {[text |-> F_a_jar, dir |-> "elsewhere", file |-> Some(c)] : c \in Contents}
    \cup {[text |-> F_A_zip, dir |-> "elsewhere", file |-> Some("x")], NoSuchFile}

AddArgs(source, mod_id, enabled, manifest_only, filename_override) ==
    [source |-> source, mod_id |-> mod_id, name |-> None, enabled |-> enabled,
     source_type |-> None, manifest_only |-> manifest_only,
     filename_override |-> filename_override, loader_hint |-> None,
     mc_version_hint |-> None, version_hint |-> None]

AddInputs ==
    {AddArgs(s, i, e, FALSE, None) :
        s \in AddSources, i \in {None, Some(S_b)}, e \in BOOLEAN}
    \cup {AddArgs(NoSuchFile, i, e, TRUE, f) :
            i \in {None, Some(S_b)}, e \in BOOLEAN, f \in {None, Some(F_a_jar)}}
    \cup {AddArgs([text |-> F_a_jar, dir |-> "elsewhere", file |-> Some("y")],
                  Some(S_c), e, FALSE, Some(F_b_jar)) : e \in BOOLEAN}

S_fabric == <<"f","a","b","r","i","c">>

S_forge == <<"f","o","r","g","e">>

S_1_20 == <<"1",".","2","0">>

S_1_19 == <<"1",".","1","9">>

\* a snapshot version as the registry and as a caller write it
S_24W == <<"2","4","W">>

S_24w == <<"2","4","w">>

\* What the registry holds: project c with one release whose only file is
\* a.jar with content y
RegistryProject ==
    [id |-> <<"p">>, slug |-> Some(S_c), title |-> None, project_url |-> None,
     wiki_url |-> None]

RegistryFile ==
    [filename |-> Some(F_a_jar), url |-> Some(<<"u">>), primary |-> FALSE,
     content |-> Some("y"), sha512 |-> None, sha1 |-> None]

RegistryVersion(loaders, game_versions) ==
    [id |-> <<"v">>, project_id |-> <<"p">>, version_number |-> <<"1">>,
     version_type |-> "release", loaders |-> loaders,
     game_versions |-> game_versions, files |-> <<RegistryFile>>]

\* the source mr:c when the registry answers the version query with the
\* given list
RegistrySource(versions) ==
    [text |-> <<"m","r",":","c">>, dir |-> "registry", file |-> None,
     registry |-> [project |-> Some(RegistryProject), by_hint |-> None,
                   versions |-> versions]]

\* the releases the registry may answer with: for the loader FABRIC and
\* the versions 1.21 and 24W, for forge and 1.21, for fabric and two older
\* versions, and one that names neither loader nor version
RegistryReleases ==
    [fabric |-> RegistryVersion(<<S_FABRIC>>, <<S_1_21, S_24W>>),
     forge |-> RegistryVersion(<<S_forge>>, <<S_1_21>>),
     old |-> RegistryVersion(<<S_fabric>>, <<S_1_20, S_1_19>>),
     untagged |-> RegistryVersion(<<>>, <<>>)]

\* add_mod from the registry: [release, loader_hint, mc_version_hint]
RegistryCases ==
    {<<"fabric", None, None>>, <<"fabric", None, Some(S_24w)>>,
     <<"forge", None, None>>, <<"forge", Some(S_forge), None>>,
     <<"forge", None, Some(S_24w)>>, <<"forge", Some(S_forge), Some(S_24w)>>,
     <<"old", None, None>>, <<"untagged", None, None>>}

RegistryInputs ==
    {[AddArgs(RegistrySource(<<RegistryReleases[k[1]]>>), None, TRUE, FALSE, None)
        EXCEPT !.loader_hint = k[2], !.mc_version_hint = k[3]] :
        k \in RegistryCases}
    \cup {AddArgs(RegistrySource(<<>>), None, TRUE, FALSE, None)}

\* add_mod with the source type given: an existing file added as custom,
\* with and without manifest-only
ForcedInputs ==
    {[AddArgs([text |-> F_a_jar, dir |-> "elsewhere", file |-> Some("x")],
              i, TRUE, mo, Some(F_b_jar))
        EXCEPT !.source_type = Some("custom")] :
        i \in {None, Some(S_c)}, mo \in BOOLEAN}

\* add_mod from the registry with a version hint that is no version id
\* (the lookup by id fails) and no candidate's version number
HintedInputs ==
    {[AddArgs(RegistrySource(<<RegistryReleases.fabric>>), None, TRUE, FALSE, None)
        EXCEPT !.version_hint = Some(<<"9">>)]}

\* add_mod from the registry under the file name of the manifest file: the
\* release is for fabric and two older versions, the version asked for is
\* 1.21, so that the add fails after the download
OverManifestInputs ==
    {[AddArgs(RegistrySource(<<RegistryReleases.old>>), None, TRUE, FALSE,
              Some(MANIFEST_FILENAME))
        EXCEPT !.mc_version_hint = Some(S_1_21)]}

\* add_mod with manifest_only and no filename (none, or the empty text):
\* from an existing file, from the registry, and with a source type the
\* program does not know
UnnamedInputs ==
    {AddArgs([text |-> F_a_jar, dir |-> "elsewhere", file |-> Some("x")],
             None, TRUE, TRUE, Some(<<>>)),
     AddArgs(RegistrySource(<<RegistryReleases.fabric>>), None, TRUE, TRUE, None),
     [AddArgs(NoSuchFile, None, TRUE, TRUE, None)
        EXCEPT !.source_type = Some("ftp")]}

\* The manifests earlier runs left behind, computed by the operations
\* themselves at time 0: init with adoption over a directory, then possibly
\* disable of a, then possibly a manifest-only add of c with a's file name.
SeedFs(names) == MakeFs(DirOf([n \in names |-> "x"], TRUE), DirOf(<<>>, FALSE))

SeedAdopted(c) ==
    UNION {{InitManifestCall(c, None, None, SeedFs(E), FALSE, TRUE, order,
                             0).manifest[1] : order \in Orders(E)} :
            E \in {{}, {F_a_jar}}}
    \cup {InitManifestCall(c, None, None, SeedFs({F_a_jar, F_b_jar}), FALSE, TRUE,
                           <<F_a_jar, F_b_jar>>, 0).manifest[1]}

SeedDisabled(c) ==
    {SetEnabledCall(m, None, SeedFs({}), S_a, FALSE, TRUE).manifest[1] :
        m \in SeedAdopted(c)}

SeedShadowed(c) ==
    {AddModCall(c, m, None, SeedFs({}),
                AddArgs(NoSuchFile, Some(S_c), FALSE, TRUE, Some(F_a_jar)),
                0).manifest[1] :
        m \in {x \in SeedAdopted(c) : x.mods # <<>>}}

SeedManifests(c) == SeedAdopted(c) \cup SeedDisabled(c) \cup SeedShadowed(c)

\* Manifest files this program did not write: a hand-written file with one
\* entry and no schema_version, loader or minecraft_version key, and files
\* of other schema versions
MinimalFile == [mods |-> <<[id |-> S_a, filename |-> F_a_jar]>>]

OtherSchemaVersions == {0, 2}

\* a manifest file brought from a server of another loader and version
OtherServerFile ==
    [loader |-> S_forge, minecraft_version |-> S_1_20,
     mods |-> <<[id |-> S_b, filename |-> F_b_jar]>>]

ForeignFiles(c) ==
    {Some(MinimalFile), Some(OtherServerFile)}
    \cup {Some([DumpManifest(m) EXCEPT !.schema_version = v]) :
            m \in SeedAdopted(c), v \in OtherSchemaVersions}

\* the directories a saved manifest is found with: a.jar and b.jar, the
\* files its entries name, each there or not, enabled or disabled
SeededSnapshots ==
    {MakeFs(DirOf(e, TRUE), DirOf(d, FALSE)) :
        e \in Held({X \cup Y : X \in SUBSET {F_a_jar}, Y \in SUBSET {F_b_jar}}),
        d \in DisabledHoldings}

\* the directories a manifest file written by someone else is found in: no
\* mod was disabled there
ForeignSnapshots ==
    {MakeFs(DirOf(e, TRUE), DirOf(<<>>, FALSE)) : e \in EnabledHoldings}

----------------------------------------------------------------------------
(* The state machine *)

Pre == [manifest |-> manifest, disk |-> disk, fs |-> fs]

\* a call returns: its outcome becomes the state
Apply(op, args, r) ==
    /\ manifest' = r.manifest
    /\ disk' = r.disk
    /\ fs' = r.fs
    /\ clock' = clock + 1
    /\ last' = [op |-> op, args |-> args, ok |-> r.ok, ret |-> r.ret, pre |-> Pre]
    /\ UNCHANGED <<cfg, invocations>>

Started == [op |-> "start", args |-> None, ok |-> TRUE, ret |-> None, pre |-> None]

\* a session starts on a data directory without manifest, or on one whose
\* manifest file an earlier session saved or someone else wrote, and which
\* this session has loaded if it can be loaded
Init ==
    /\ cfg \in CfgChoices
    /\ \/ /\ disk = None
          /\ manifest = None
          /\ fs \in Snapshots \cup FreshSnapshots
       \/ /\ disk \in {SaveManifest(m) : m \in SeedManifests(cfg)}
          /\ manifest = LoadManifest(disk).manifest
          /\ fs \in SeededSnapshots
       \/ /\ disk \in ForeignFiles(cfg)
          /\ manifest = LoadManifest(disk).manifest
          /\ fs \in ForeignSnapshots
    /\ clock = 1
    /\ last = Started
    /\ invocations = <<>>

InitManifest ==
    /\ clock <= MaxClock
    /\ \E force \in BOOLEAN, adopt_existing \in BOOLEAN :
       \E order \in IF adopt_existing
                    THEN Orders(IterModFiles(EnsureDirectories(fs),
                                             DEFAULT_MODS_DIR))
                    ELSE {<<>>} :
          Apply("init_manifest",
                [force |-> force, adopt_existing |-> adopt_existing],
                InitManifestCall(cfg, manifest, disk, fs, force, adopt_existing,
                                 order, clock))

LoadManifestStep ==
    /\ clock <= MaxClock
    /\ LET r == LoadManifest(disk)
       IN  Apply("load_manifest", None,
                 Outcome(r.ok, IF r.ok THEN r.manifest ELSE manifest, disk, fs,
                         r.manifest))

AddMod ==
    /\ clock <= MaxClock
    /\ manifest # None
    /\ \E a \in AddInputs \cup RegistryInputs \cup ForcedInputs
                   \cup UnnamedInputs \cup HintedInputs :
          Apply("add_mod", a, AddModCall(cfg, manifest[1], disk, fs, a, clock))

SetEnabled ==
    /\ clock <= MaxClock
    /\ manifest # None
    /\ \E mod_id \in IdInputs, enabled \in BOOLEAN, move_files \in BOOLEAN :
          Apply("set_enabled",
                [mod_id |-> mod_id, enabled |-> enabled, move_files |-> move_files],
                SetEnabledCall(manifest[1], disk, fs, mod_id, enabled, move_files))

RemoveMod ==
    /\ clock <= MaxClock
    /\ manifest # None
    /\ \E mod_id \in IdInputs, remove_files \in BOOLEAN :
          Apply("remove_mod", [mod_id |-> mod_id, remove_files |-> remove_files],
                RemoveModCall(manifest[1], disk, fs, mod_id, remove_files))

PurgeMods ==
    /\ clock <= MaxClock
    /\ manifest # None
    /\ \E remove_files \in BOOLEAN :
          Apply("purge_mods", [remove_files |-> remove_files],
                PurgeModsCall(manifest[1], disk, fs, remove_files))

InventoryStep ==
    /\ clock <= MaxClock
    /\ manifest # None
    /\ LET fs1 == EnsureDirectories(fs)
       IN  \E orderMods \in Orders(IterModFiles(fs1, DEFAULT_MODS_DIR)),
              orderDisabled \in Orders(IterModFiles(fs1, DisabledLocation)) :
              Apply("inventory", None,
                    Outcome(TRUE, manifest, disk, fs1,
                            Inventory(manifest[1], fs1, orderMods, orderDisabled)))

Next ==
    \/ InitManifest
    \/ LoadManifestStep
    \/ AddMod
    \/ SetEnabled
    \/ RemoveMod
    \/ PurgeMods
    \/ InventoryStep

Spec == Init /\ [][Next]_vars

\* a configuration that names neither server type nor Minecraft version
UnsetCfg == [server_type |-> <<>>, minecraft_version |-> <<>>]

\* the directories of the longer sessions: a.jar enabled, or no mod file;
\* the manifest file lies in the enabled directory, the disabled directory
\* may not have been created yet
SessionSnapshots ==
    {MakeFs(DirOf(e, TRUE), DirOf(<<>>, FALSE)) :
        e \in Held({{}, {F_a_jar}})}
    \cup {MakeFs(DirOf([n \in {F_a_jar} |-> "x"], TRUE), MissingDir)}

\* A longer session on a hand-written manifest file: the same calls, the
\* session starting one tick earlier so that one more call fits in.
SessionInit ==
    /\ cfg \in CfgChoices \cup {UnsetCfg}
    /\ disk = Some(MinimalFile)
    /\ manifest = LoadManifest(disk).manifest
    /\ fs \in SessionSnapshots
    /\ clock = 0
    /\ last = Started
    /\ invocations = <<>>

SessionSpec == SessionInit /\ [][Next]_vars

----------------------------------------------------------------------------
(* The selection functions of the registry resolvers, applied once to a    *)
(* candidate list the registry answered with.                              *)

\* longest candidate list
MaxCandidates == 3

\* str(n) of a natural number
RECURSIVE Str(_)
Str(n) ==
    LET digit == <<"0", "1", "2", "3", "4", "5", "6", "7", "8", "9">>[(n % 10) + 1]
    IN  IF n < 10 THEN <<digit>> ELSE Str(n \div 10) \o <<digit>>

\* what tells two Modrinth candidates apart for the selection: channel
\* (one of them none of release, beta, alpha) and version number
CandidateKinds ==
    [version_type : {"release", "beta", "alpha", "rc"},
     version_number : {<<"1">>, <<"2">>}]

\* the k-th candidate of a list, of project p
Candidate(k, kind) ==
    [RegistryVersion(<<>>, <<>>) EXCEPT !.id = Str(k),
                                       !.version_type = kind.version_type,
                                       !.version_number = kind.version_number]

\* what GET /version/{hint} answers: nothing, a version of the project, a
\* version of another project
ByHintAnswers ==
    {None,
     Some([Candidate(0, [version_type |-> "alpha", version_number |-> <<"7">>])
             EXCEPT !.id = <<"2">>]),
     Some([Candidate(0, [version_type |-> "alpha", version_number |-> <<"7">>])
             EXCEPT !.id = <<"2">>, !.project_id = <<"q">>])}

VersionHints == {None, Some(<<>>), Some(<<"2">>)}

\* one application of a selection function: its arguments and its result
Selected(op, args, result) ==
    /\ last' = [op |-> op, args |-> args, ok |-> result # None, ret |-> result,
                pre |-> Pre]
    /\ clock' = clock + 1
    /\ UNCHANGED <<cfg, manifest, disk, fs, invocations>>

SelectVersion ==
    /\ last = Started
    /\ \E n \in 0..MaxCandidates :
          \E kinds \in [1..n -> CandidateKinds], hint \in VersionHints,
             by_hint \in ByHintAnswers :
             LET registry == [project |-> Some(RegistryProject),
                              by_hint |-> by_hint,
                              versions |-> [i \in 1..n |-> Candidate(i, kinds[i])]]
             IN  Selected("_resolve_version",
                          [registry |-> registry, version_hint |-> hint],
                          ResolveVersion(registry, RegistryProject,
                                         [version_hint |-> hint]))

\* str(file.get("id")): the text "None" for a file without an id
IdText(file) ==
    IF file.id = None THEN <<"N", "o", "n", "e">> ELSE Str(file.id[1])

\* a selection that matches the hint against the id and the file name only
CurseForgeSelectFile_NoDisplayName(files, version_hint) ==
    LET hinted == FirstOf({i \in DOMAIN files :
                             \/ Some(IdText(files[i])) = version_hint
                             \/ Some(files[i].fileName) = version_hint})
        typed(t) == FirstOf({i \in DOMAIN files : files[i].releaseType = t})
    IN  IF Truthy(version_hint) /\ hinted # 0 THEN files[hinted]
        ELSE IF typed(1) # 0 THEN files[typed(1)]
        ELSE IF typed(2) # 0 THEN files[typed(2)]
        ELSE IF typed(3) # 0 THEN files[typed(3)]
        ELSE files[1]

\* CurseForgeResolver._select_file, over the non-empty list _list_files
\* returns
CurseForgeSelectFile(files, version_hint) ==
    LET hinted == FirstOf({i \in DOMAIN files :
                             \/ Some(IdText(files[i])) = version_hint
                             \/ Some(files[i].fileName) = version_hint
                             \/ Some(files[i].displayName) = version_hint})
        typed(t) == FirstOf({i \in DOMAIN files : files[i].releaseType = t})
    IN  IF Truthy(version_hint) /\ hinted # 0 THEN files[hinted]
        ELSE IF typed(1) # 0 THEN files[typed(1)]
        ELSE IF typed(2) # 0 THEN files[typed(2)]
        ELSE IF typed(3) # 0 THEN files[typed(3)]
        ELSE files[1]

\* what tells two CurseForge files apart for the selection: the id (one
\* file has none), the names (one file is named like the other's id) and
\* the release type (4 is none of release, beta, alpha)
CurseForgeFileKinds ==
    [id : {None, Some(12)},
     names : {[fileName |-> <<"f">>, displayName |-> <<"d">>],
              [fileName |-> <<"1", "2">>, displayName |-> <<"f">>]},
     releaseType : 1..4]

\* the k-th file of a list
CurseForgeFile(k, kind) ==
    [id |-> kind.id, fileName |-> kind.names.fileName,
     displayName |-> kind.names.displayName, releaseType |-> kind.releaseType,
     downloadUrl |-> Str(k)]

FileHints ==
    {None, Some(<<>>), Some(<<"1", "2">>), Some(<<"f">>), Some(<<"d">>),
     Some(<<"N", "o", "n", "e">>)}

SelectCurseForgeFile ==
    /\ last = Started
    /\ \E n \in 1..MaxCandidates :
          \E kinds \in [1..n -> CurseForgeFileKinds], hint \in FileHints :
             LET files == [i \in 1..n |-> CurseForgeFile(i, kinds[i])]
             IN  Selected("_select_file",
                          [files |-> files, version_hint |-> hint],
                          Some(CurseForgeSelectFile(files, hint)))

SelectInit ==
    /\ cfg \in CfgChoices
    /\ manifest = None
    /\ disk = None
    /\ fs = MakeFs(MissingDir, MissingDir)
    /\ clock = 1
    /\ last = Started
    /\ invocations = <<>>

SelectNext ==
    \/ SelectVersion
    \/ SelectCurseForgeFile

SelectSpec == SelectInit /\ [][SelectNext]_vars

----------------------------------------------------------------------------
(* Two invocations of the command line at once.  Each loads the manifest   *)
(* file, then runs one operation on the manifest it loaded; the operation  *)
(* saves at its end.  Nothing orders the steps of the two.                 *)

\* what each invocation is asked to do: the first adds entry c or b, the
\* second disables or removes entry a
InvocationOps ==
    <<{[op |-> "add_mod", args |-> AddArgs(NoSuchFile, Some(i), e, TRUE, Some(F_b_jar))] :
          i \in {S_b, S_c}, e \in BOOLEAN},
      {[op |-> "set_enabled",
        args |-> [mod_id |-> S_a, enabled |-> FALSE, move_files |-> mv]] :
          mv \in BOOLEAN}
      \cup {[op |-> "remove_mod", args |-> [mod_id |-> S_a, remove_files |-> rf]] :
          rf \in BOOLEAN}>>

\* the operation of an invocation on manifest m; no file is handed in, so
\* that the outcome's file is the document saved, None when nothing is
\* saved
Operate(c, m, fsx, o, now) ==
    CASE o.op = "add_mod" -> AddModCall(c, m, None, fsx, o.args, now)
      [] o.op = "set_enabled" ->
            SetEnabledCall(m, None, fsx, o.args.mod_id, o.args.enabled,
                           o.args.move_files)
      [] o.op = "remove_mod" ->
            RemoveModCall(m, None, fsx, o.args.mod_id, o.args.remove_files)

\* mutant: the manifest file is read again when the operation starts
InvocationManifest_Reload(loaded, file) == LoadManifest(file).manifest

\* the manifest an invocation operates on: the one it loaded, whatever the
\* file holds by now
InvocationManifest(loaded, file) == loaded

NotStarted ==
    [pc |-> "start", manifest |-> None, loaded_at |-> 0, op |-> None,
     saved_at |-> 0, wrote |-> None]

RaceInit ==
    /\ cfg \in CfgChoices
    /\ disk \in {SaveManifest(m) : m \in SeedAdopted(cfg) \cup SeedDisabled(cfg)}
    /\ manifest = None
    /\ fs \in {SeedFs({F_a_jar}), SeedFs({F_a_jar, F_b_jar})}
    /\ clock = 1
    /\ last = Started
    /\ invocations = [p \in {1, 2} |-> NotStarted]

\* manifest = load_manifest(cfg) of invocation p
Load(p) ==
    /\ invocations[p].pc = "start"
    /\ LET r == LoadManifest(disk)
       IN  /\ invocations' =
                [invocations EXCEPT
                    ![p] = [@ EXCEPT !.pc = IF r.ok THEN "loaded" ELSE "done",
                                     !.manifest = r.manifest,
                                     !.loaded_at = clock]]
           /\ last' = [op |-> "load_manifest", args |-> p, ok |-> r.ok,
                       ret |-> r.manifest, pre |-> Pre]
    /\ clock' = clock + 1
    /\ UNCHANGED <<cfg, manifest, disk, fs>>

\* invocation p returns from operation o with outcome r: what it saved is
\* the manifest file, what it moved or deleted is gone
Returned(p, o, r) ==
    /\ disk' = IF r.disk = None THEN disk ELSE r.disk
    /\ fs' = r.fs
    /\ invocations' =
          [invocations EXCEPT
              ![p] = [@ EXCEPT !.pc = "done",
                               !.manifest = r.manifest,
                               !.op = Some(o),
                               !.saved_at = IF r.disk = None THEN 0 ELSE clock,
                               !.wrote = r.disk]]
    /\ last' = [op |-> o.op, args |-> o.args, ok |-> r.ok, ret |-> r.ret,
                pre |-> Pre]

\* the operation of invocation p, with its save_manifest
Run(p) ==
    /\ invocations[p].pc = "loaded"
    /\ \E o \in InvocationOps[p] :
          Returned(p, o,
                   Operate(cfg,
                           InvocationManifest(invocations[p].manifest, disk)[1],
                           fs, o, clock))
    /\ clock' = clock + 1
    /\ UNCHANGED <<cfg, manifest>>

RaceNext ==
    \/ \E p \in {1, 2} : Load(p)
    \/ \E p \in {1, 2} : Run(p)

RaceSpec == RaceInit /\ [][RaceNext]_vars

----------------------------------------------------------------------------
(* set_enabled, interrupted between its file move and its save *)

\* mutant: the interrupted call had not moved the file yet
SetEnabledMove_NotYet(m, fsx, mod_id, enabled, move_files) ==
    EnsureDirectories(fsx)

\* set_enabled of an entry whose flag differs, up to the end of the file
\* move: the directories after ensure_directories and shutil.move
SetEnabledMove(m, fsx, mod_id, enabled, move_files) ==
    LET fs1 == EnsureDirectories(fsx)
        src_dir == IF enabled THEN DisabledLocation ELSE DEFAULT_MODS_DIR
        dst_dir == IF enabled THEN DEFAULT_MODS_DIR ELSE DisabledLocation
        name == m.mods[Find(m, mod_id)].filename
    IN  IF move_files /\ Exists(fs1, src_dir, name)
        THEN MoveFile(fs1, src_dir, dst_dir, name)
        ELSE fs1

\* set_enabled from the flag assignment on: entry.enabled = enabled, then
\* save_manifest
SetEnabledSave(m, mod_id, enabled) ==
    [m EXCEPT !.mods[Find(m, mod_id)].enabled = enabled]

\* whether set_enabled finds a file to move
FindsFile(m, fsx, mod_id, enabled, move_files) ==
    /\ move_files
    /\ Exists(EnsureDirectories(fsx),
              IF enabled THEN DisabledLocation ELSE DEFAULT_MODS_DIR,
              m.mods[Find(m, mod_id)].filename)

Idle == [pc |-> "start", args |-> None, moved |-> FALSE, before |-> None]

\* an invocation on a data directory an earlier run left, its manifest
\* loaded
InterruptInit ==
    /\ cfg \in CfgChoices
    /\ disk \in {SaveManifest(m) : m \in SeedManifests(cfg)}
    /\ manifest = LoadManifest(disk).manifest
    /\ fs \in SeededSnapshots
    /\ clock = 1
    /\ last = Started
    /\ invocations = Idle

\* the invocation is at position pc, after step op
At(pc, op, args, moved) ==
    /\ invocations' = [pc |-> pc, args |-> args, moved |-> moved,
                       before |-> IF pc = "moved" THEN Pre ELSE invocations.before]
    /\ last' = [op |-> op, args |-> args, ok |-> TRUE, ret |-> None, pre |-> Pre]
    /\ clock' = clock + 1

\* set_enabled runs up to the end of the file move
SetEnabledMoveStep ==
    /\ invocations.pc = "start"
    /\ \E mod_id \in IdInputs, enabled \in BOOLEAN, move_files \in BOOLEAN :
          /\ Find(manifest[1], mod_id) # 0
          /\ manifest[1].mods[Find(manifest[1], mod_id)].enabled # enabled
          /\ fs' = SetEnabledMove(manifest[1], fs, mod_id, enabled, move_files)
          /\ At("moved",
                "set_enabled_move",
                [mod_id |-> mod_id, enabled |-> enabled, move_files |-> move_files],
                FindsFile(manifest[1], fs, mod_id, enabled, move_files))
    /\ UNCHANGED <<cfg, manifest, disk>>

\* set_enabled runs to its end: the flag is set and the manifest saved
SetEnabledSaveStep ==
    /\ invocations.pc = "moved"
    /\ LET m2 == SetEnabledSave(manifest[1], invocations.args.mod_id,
                                invocations.args.enabled)
       IN  /\ manifest' = Some(m2)
           /\ disk' = SaveManifest(m2)
    /\ At("done", "set_enabled", invocations.args, invocations.moved)
    /\ UNCHANGED <<cfg, fs>>

\* the invocation ends before save_manifest: what it held in memory is gone
Interrupt ==
    /\ invocations.pc = "moved"
    /\ manifest' = None
    /\ At("interrupted", "interrupt", invocations.args, invocations.moved)
    /\ UNCHANGED <<cfg, disk, fs>>

\* the next invocation loads the manifest
Reload ==
    /\ invocations.pc = "interrupted"
    /\ manifest' = LoadManifest(disk).manifest
    /\ At("reloaded", "load_manifest", invocations.args, invocations.moved)
    /\ UNCHANGED <<cfg, disk, fs>>

\* the same set_enabled returns with outcome r
Resumed(r) ==
    /\ manifest' = r.manifest
    /\ disk' = r.disk
    /\ fs' = r.fs
    /\ At("rerun", "set_enabled", invocations.args, invocations.moved)

\* the next invocation runs the same set_enabled again
Rerun ==
    /\ invocations.pc = "reloaded"
    /\ manifest # None
    /\ Resumed(SetEnabledCall(manifest[1], disk, fs, invocations.args.mod_id,
                              invocations.args.enabled,
                              invocations.args.move_files))
    /\ UNCHANGED cfg

InterruptNext ==
    \/ SetEnabledMoveStep
    \/ SetEnabledSaveStep
    \/ Interrupt
    \/ Reload
    \/ Rerun

InterruptSpec == InterruptInit /\ [][InterruptNext]_vars

----------------------------------------------------------------------------
(* add_mod from the registry: releases that list several loaders, and a   *)
(* download under the name of the manifest file                            *)

\* the loader lists of the releases: the server's loader second, first,
\* second in other case, absent, and no loader at all
LoaderLists ==
    {<<S_forge, S_fabric>>, <<S_fabric, S_forge>>, <<S_forge, S_FABRIC>>,
     <<S_forge>>, <<>>}

\* add_mod of a release for 1.21 with one of these loader lists, with and
\* without a loader hint
ListedInputs ==
    {[AddArgs(RegistrySource(<<RegistryVersion(loaders, <<S_1_21>>)>>), None, TRUE,
              FALSE, None)
        EXCEPT !.loader_hint = hint] :
        loaders \in LoaderLists, hint \in {None, Some(S_fabric), Some(S_forge)}}

AddModListed ==
    /\ clock <= MaxClock
    /\ manifest # None
    /\ \E a \in ListedInputs \cup OverManifestInputs :
          Apply("add_mod", a, AddModCall(cfg, manifest[1], disk, fs, a, clock))

ListedSpec == Init /\ [][AddModListed]_vars

----------------------------------------------------------------------------
(* Properties *)

Mods(m) == IF m = None THEN <<>> ELSE m[1].mods

\* what load_manifest would return now
Loaded == LoadManifest(disk)

DistinctIds(mods) ==
    \A i, j \in DOMAIN mods : mods[i].id = mods[j].id => i = j

Called(op) == last.op = op

HasId(mods, mod_id) == \E i \in DOMAIN mods : mods[i].id = mod_id

\* some listing order of a set of files
AnyOrder(S) == CHOOSE o \in Orders(S) : TRUE

\* the inventory of a manifest over directories, as inventory() computes it
\* after ensure_directories
InventoryOf(m, fsx) ==
    LET fs1 == EnsureDirectories(fsx)
    IN  Inventory(m, fs1, AnyOrder(IterModFiles(fs1, DEFAULT_MODS_DIR)),
                  AnyOrder(IterModFiles(fs1, DisabledLocation)))

StatusOf(m, fsx, i) == Status(InventoryOf(m, fsx).entries[i])

\* the directory the enabled flag designates
Designated(entry) == IF entry.enabled THEN DEFAULT_MODS_DIR ELSE DisabledLocation

IsModFileIn(fsx, location, name) == name \in IterModFiles(fsx, location)

\* the id add_mod gives the new entry: the explicit id, else the id derived
\* from the file name (the override, else the name of the source)
ResultingId(a) ==
    IF Truthy(a.mod_id) THEN a.mod_id[1]
    ELSE DeriveModId(IF Truthy(a.filename_override) THEN a.filename_override[1]
                     ELSE Basename(a.source.text))

(* C1: the ids of the manifest's entries, in memory and in the manifest     *)
(* file, are pairwise distinct in every reachable state; an add_mod whose   *)
(* resulting id is the id of an existing entry fails and appends nothing.   *)
C1_UniqueIds ==
    /\ DistinctIds(Mods(manifest))
    /\ Loaded.ok => DistinctIds(Mods(Loaded.manifest))
    /\ (Called("add_mod") /\ HasId(Mods(last.pre.manifest), ResultingId(last.args)))
          => /\ ~last.ok
             /\ Mods(manifest) = Mods(last.pre.manifest)
             /\ disk = last.pre.disk

C1_Witness ==
    /\ Called("add_mod")
    /\ HasId(Mods(last.pre.manifest), ResultingId(last.args))
    /\ ~last.args.manifest_only
    /\ last.args.source.file # None
    /\ Len(Mods(manifest)) >= 2

(* C2: after a successful add_mod with an explicit id and an explicit file  *)
(* name, load_manifest returns a manifest with exactly one entry of that    *)
(* id, and that entry has the requested file name and enabled flag.         *)
C2_AddThenLoad ==
    (/\ Called("add_mod") /\ last.ok
     /\ Truthy(last.args.mod_id) /\ Truthy(last.args.filename_override))
    => /\ Loaded.ok
       /\ LET mods == Mods(Loaded.manifest)
              hits == {i \in DOMAIN mods : mods[i].id = last.args.mod_id[1]}
          IN  /\ Cardinality(hits) = 1
              /\ \A i \in hits :
                    /\ mods[i].filename = last.args.filename_override[1]
                    /\ mods[i].enabled = last.args.enabled

C2_Witness ==
    /\ Called("add_mod") /\ last.ok
    /\ Truthy(last.args.mod_id) /\ Truthy(last.args.filename_override)
    /\ ~last.args.enabled
    /\ ~last.args.manifest_only
    /\ Len(Mods(Loaded.manifest)) >= 2

\* the entry a set_enabled call names already has the requested flag
SetEnabledNoChange ==
    /\ Called("set_enabled")
    /\ \E i \in DOMAIN Mods(last.pre.manifest) :
          /\ i = Find(last.pre.manifest[1], last.args.mod_id)
          /\ last.pre.manifest[1].mods[i].enabled = last.args.enabled

(* C3: set_enabled with the flag the entry already has moves no file and    *)
(* leaves the in-memory manifest and the manifest file unchanged, wherever  *)
(* the entry's file is.                                                     *)
C3_SetEnabledIdempotent ==
    SetEnabledNoChange
    => /\ last.ok
       /\ manifest = last.pre.manifest
       /\ disk = last.pre.disk
       /\ \A l \in Locations : fs[l].files = last.pre.fs[l].files

\* an enabled entry is enabled again while its file lies in the disabled
\* directory only
C3_Witness ==
    /\ SetEnabledNoChange
    /\ last.args.enabled /\ last.args.move_files
    /\ LET e == last.pre.manifest[1].mods[Find(last.pre.manifest[1], last.args.mod_id)]
       IN  /\ Exists(last.pre.fs, DisabledLocation, e.filename)
           /\ ~Exists(last.pre.fs, DEFAULT_MODS_DIR, e.filename)

(* C4: inventory returns one status per manifest entry, in manifest order,  *)
(* and ok + missing + moved + hash_mismatch = total = the number of entries.*)
C4_OneStatusPerEntry ==
    Called("inventory")
    => LET inv == last.ret
           mods == Mods(manifest)
           sum == Summary(inv)
       IN  /\ Len(inv.entries) = Len(mods)
           /\ \A i \in DOMAIN mods : inv.entries[i].entry = mods[i]
           /\ sum.total = Len(mods)
           /\ sum.ok + sum.missing + sum.moved + sum.hash_mismatch = sum.total

\* an inventory of three entries that are not all of one status
C4_Witness ==
    /\ Called("inventory")
    /\ Len(last.ret.entries) = 3
    /\ Summary(last.ret).missing = 1
    /\ Summary(last.ret).ok >= 1


\* the mod file names of the two directories, and those no entry names
NamesOnDisk(fsx) ==
    IterModFiles(fsx, DEFAULT_MODS_DIR) \cup IterModFiles(fsx, DisabledLocation)

TrackedNames(mods) == {mods[i].filename : i \in DOMAIN mods}

\* the directory inventory finds a file name in: the disabled directory
\* when a copy is there, else the enabled directory, else none
FoundIn(fsx, name) ==
    IF IsModFileIn(fsx, DisabledLocation, name) THEN Some(DisabledLocation)
    ELSE IF IsModFileIn(fsx, DEFAULT_MODS_DIR, name) THEN Some(DEFAULT_MODS_DIR)
    ELSE None

ExtrasNamed(inv, name) == {i \in DOMAIN inv.extras : inv.extras[i].filename = name}

\* a file of a directory that inventory matched to an entry
MatchedFile(inv, location, name) ==
    \E i \in DOMAIN inv.entries :
        /\ inv.entries[i].present
        /\ inv.entries[i].entry.filename = name
        /\ inv.entries[i].location = Some(location)

(* C5 as stated: every mod file of either directory that inventory did not *)
(* match to an entry is in the extras exactly once, with the directory it  *)
(* is in, also when the name is in both directories.                       *)
C5_EveryFileOnce ==
    Called("inventory")
    => \A l \in Locations, n \in AllNames :
          (IsModFileIn(fs, l, n) /\ ~MatchedFile(last.ret, l, n))
          => Cardinality({i \in ExtrasNamed(last.ret, n) :
                            last.ret.extras[i].location = l}) = 1

(* C5 amended: every mod file name of either directory that no entry names *)
(* is in the extras exactly once, reported with the disabled directory     *)
(* when a copy is there and with the enabled directory otherwise; the      *)
(* extras hold nothing else.                                               *)
C5_EveryNameOnce ==
    Called("inventory")
    => LET inv == last.ret
           untracked == NamesOnDisk(fs) \ TrackedNames(Mods(manifest))
       IN  /\ \A n \in untracked :
                /\ Cardinality(ExtrasNamed(inv, n)) = 1
                /\ \A i \in ExtrasNamed(inv, n) :
                      /\ Some(inv.extras[i].location) = FoundIn(fs, n)
                      /\ inv.extras[i].path = PathIn(FoundIn(fs, n)[1], n)
                      /\ inv.extras[i].sha256 =
                            Sha256(fs[FoundIn(fs, n)[1]].files[n].content)
           /\ \A i \in DOMAIN inv.extras : inv.extras[i].filename \in untracked

\* an untracked name that is in both directories
C5_Witness ==
    /\ Called("inventory")
    /\ \E i \in DOMAIN last.ret.extras :
          /\ IsModFileIn(fs, DEFAULT_MODS_DIR, last.ret.extras[i].filename)
          /\ IsModFileIn(fs, DisabledLocation, last.ret.extras[i].filename)

\* the status the decision order missing, moved, hash-mismatch, ok gives an
\* entry from the directories
ExpectedStatus(entry, fsx) ==
    LET found == FoundIn(fsx, entry.filename)
    IN  IF found = None THEN "missing"
        ELSE IF found[1] # Designated(entry) THEN "moved"
        ELSE IF /\ entry.hashes # None
                /\ entry.hashes[1].sha256 # None
                /\ entry.hashes[1].sha256[1] #
                      Sha256(fsx[found[1]].files[entry.filename].content)
        THEN "hash-mismatch"
        ELSE "ok"

\* the first entry of the manifest with its file name
FirstWithName(mods, i) == \A j \in 1..(i - 1) : mods[j].filename # mods[i].filename

(* C6 as stated: every entry's status follows the decision order from      *)
(* whether and where its file name is found.                               *)
C6_StatusOrder ==
    Called("inventory")
    => \A i \in DOMAIN last.ret.entries :
          Status(last.ret.entries[i]) = ExpectedStatus(Mods(manifest)[i], fs)

(* C6 amended: the status of an entry that is the first of the manifest    *)
(* with its file name follows the decision order missing, moved,           *)
(* hash-mismatch, ok; a later entry with the same file name is missing.    *)
C6_StatusOrderFirst ==
    Called("inventory")
    => \A i \in DOMAIN last.ret.entries :
          Status(last.ret.entries[i]) =
             IF FirstWithName(Mods(manifest), i)
             THEN ExpectedStatus(Mods(manifest)[i], fs)
             ELSE "missing"

\* an entry whose file is in the wrong directory and corrupted is moved
C6_Witness ==
    /\ Called("inventory")
    /\ \E i \in DOMAIN last.ret.entries :
          LET st == last.ret.entries[i]
          IN  /\ Status(st) = "moved"
              /\ st.hash_ok = Some(FALSE)

\* the entry of a manifest with the given id
EntryAt(mods, mod_id) == CHOOSE i \in DOMAIN mods : mods[i].id = mod_id

OtherLocation(location) ==
    IF location = DEFAULT_MODS_DIR THEN DisabledLocation ELSE DEFAULT_MODS_DIR

\* set_enabled with move_files has been called to flip the flag of an entry
\* whose file name no other entry uses, whose file is in the directory of
\* its flag and whose status is ok
FlipOfOkEntry ==
    /\ Called("set_enabled")
    /\ last.args.move_files
    /\ HasId(Mods(last.pre.manifest), last.args.mod_id)
    /\ LET mods == Mods(last.pre.manifest)
           i == EntryAt(mods, last.args.mod_id)
       IN  /\ mods[i].enabled # last.args.enabled
           /\ \A j \in DOMAIN mods : mods[j].filename = mods[i].filename => j = i
           /\ IsModFileIn(last.pre.fs, Designated(mods[i]), mods[i].filename)
           /\ StatusOf(last.pre.manifest[1], last.pre.fs, i) = "ok"

(* C7: disabling an enabled entry (enabling a disabled entry) whose file    *)
(* name no other entry uses and whose file is in the directory of its flag  *)
(* with status ok, with move_files, leaves the file, content unchanged, in  *)
(* the other directory and not in the one it was in, persists the new      *)
(* flag, and an inventory taken afterwards reports the entry ok.           *)
C7_FlipThenOk ==
    FlipOfOkEntry
    => LET old == Mods(last.pre.manifest)
           i == EntryAt(old, last.args.mod_id)
           name == old[i].filename
           from == Designated(old[i])
           to == OtherLocation(from)
       IN  /\ last.ok
           /\ IsModFileIn(fs, to, name)
           /\ fs[to].files[name] = last.pre.fs[from].files[name]
           /\ ~Exists(fs, from, name)
           /\ Loaded.ok
           /\ Len(Mods(Loaded.manifest)) = Len(old)
           /\ Mods(Loaded.manifest)[i].id = last.args.mod_id
           /\ Mods(Loaded.manifest)[i].enabled = last.args.enabled
           /\ Mods(manifest)[i].enabled = last.args.enabled
           /\ StatusOf(Loaded.manifest[1], fs, i) = "ok"

\* an enabled entry with a recorded digest has been disabled
C7_Witness ==
    /\ FlipOfOkEntry
    /\ ~last.args.enabled
    /\ Len(Mods(manifest)) >= 2
    /\ Mods(manifest)[EntryAt(Mods(manifest), last.args.mod_id)].hashes # None

\* the entry records a sha256 and the copy of its file that inventory finds
\* has another digest
Corrupted(entry, fsx) ==
    /\ entry.hashes # None
    /\ entry.hashes[1].sha256 # None
    /\ FoundIn(fsx, entry.filename) # None
    /\ entry.hashes[1].sha256[1] #
          Sha256(fsx[FoundIn(fsx, entry.filename)[1]].files[entry.filename].content)

(* C8 as stated: inventory classifies every entry that records a sha256    *)
(* and whose file has another digest as hash-mismatch.                     *)
C8_CorruptedIsMismatch ==
    Called("inventory")
    => \A i \in DOMAIN last.ret.entries :
          Corrupted(Mods(manifest)[i], fs)
          => Status(last.ret.entries[i]) = "hash-mismatch"

(* C8 amended: inventory classifies as hash-mismatch every entry that      *)
(* records a sha256, is the first of the manifest with its file name, and  *)
(* whose file is found in the directory its flag designates with another   *)
(* digest.                                                                 *)
C8_CorruptedInPlaceIsMismatch ==
    Called("inventory")
    => \A i \in DOMAIN last.ret.entries :
          (/\ Corrupted(Mods(manifest)[i], fs)
           /\ FirstWithName(Mods(manifest), i)
           /\ FoundIn(fs, Mods(manifest)[i].filename) = Some(Designated(Mods(manifest)[i])))
          => /\ Status(last.ret.entries[i]) = "hash-mismatch"
             /\ last.ret.entries[i].hash_ok = Some(FALSE)

\* a corrupted file in its place, next to an entry that is ok
C8_Witness ==
    /\ Called("inventory")
    /\ \E i, j \in DOMAIN last.ret.entries :
          /\ Corrupted(Mods(manifest)[i], fs)
          /\ FirstWithName(Mods(manifest), i)
          /\ FoundIn(fs, Mods(manifest)[i].filename) = Some(Designated(Mods(manifest)[i]))
          /\ Status(last.ret.entries[j]) = "ok"

\* init_manifest has succeeded with adopt_existing
Adopting == Called("init_manifest") /\ last.ok /\ last.args.adopt_existing

(* C9: after init_manifest with adopt_existing the manifest has one entry  *)
(* per mod file of the enabled directory, with that file name, the id      *)
(* derived from it, enabled and with the file's sha256, and the adopted    *)
(* count is the number of mod files of the enabled directory.              *)
C9_AdoptsEveryFile ==
    Adopting
    => LET files == IterModFiles(fs, DEFAULT_MODS_DIR)
           mods == Mods(Loaded.manifest)
       IN  /\ last.ret = Cardinality(files)
           /\ Len(mods) = Cardinality(files)
           /\ \A f \in files :
                 \E i \in DOMAIN mods :
                    /\ mods[i].filename = f
                    /\ mods[i].id = DeriveModId(f)
                    /\ mods[i].enabled
                    /\ mods[i].hashes # None
                    /\ mods[i].hashes[1].sha256 =
                          Some(Sha256(fs[DEFAULT_MODS_DIR].files[f].content))

\* init_manifest has been called without force over a manifest file
InitOverExisting(force) ==
    /\ Called("init_manifest")
    /\ last.pre.disk # None
    /\ last.args.force = force

(* C10: init_manifest without force over an existing manifest file fails   *)
(* and leaves the manifest file, the manifest in memory and both           *)
(* directories as they were; with force it succeeds and the manifest file  *)
(* holds a fresh manifest, seeded from the configuration, whose entries    *)
(* are those adopted by this call: none without adopt_existing, else as    *)
(* many as the adopted count, each created by this call for a mod file of  *)
(* the enabled directory.                                                  *)
C10_InitOverExisting ==
    /\ InitOverExisting(FALSE)
       => /\ ~last.ok
          /\ disk = last.pre.disk
          /\ manifest = last.pre.manifest
          /\ fs = last.pre.fs
    /\ InitOverExisting(TRUE)
       => /\ last.ok
          /\ Loaded.ok
          /\ Loaded.manifest = manifest
          /\ manifest[1].loader = Some(Lower(cfg.server_type))
          /\ manifest[1].minecraft_version = Some(cfg.minecraft_version)
          /\ LET mods == Mods(Loaded.manifest)
             IN  /\ Len(mods) = last.ret
                 /\ ~last.args.adopt_existing => mods = <<>>
                 /\ \A i \in DOMAIN mods :
                       /\ mods[i].installed_at = Some(clock - 1)
                       /\ IsModFileIn(last.pre.fs, DEFAULT_MODS_DIR, mods[i].filename)
                       /\ mods[i].enabled

\* a forced init over a manifest that tracked a disabled entry and an entry
\* without file adopts the one file of the enabled directory
C10_Witness ==
    /\ InitOverExisting(TRUE)
    /\ last.args.adopt_existing
    /\ Len(Mods(last.pre.manifest)) >= 2
    /\ \E i \in DOMAIN Mods(last.pre.manifest) : ~Mods(last.pre.manifest)[i].enabled
    /\ Len(Mods(manifest)) = 1

\* the schema version of a manifest file: the key's value, the default
\* when the key is missing, none (0) when the file is no JSON text
FileSchemaVersion(file) ==
    IF "bytes" \in DOMAIN file[1] THEN 0
    ELSE IF "schema_version" \in DOMAIN file[1] THEN file[1].schema_version
    ELSE SUPPORTED_SCHEMA_VERSION

(* C11: load_manifest fails when the manifest file is absent and when its  *)
(* schema version is not 1, returns a manifest (of schema version 1) only  *)
(* when the file exists with schema version 1, and never changes the file, *)
(* nor the directories; a failed load leaves the manifest in memory as it  *)
(* was.                                                                    *)
C11_LoadFailsOrReturns ==
    Called("load_manifest")
    => /\ last.ok <=> (last.pre.disk # None /\ FileSchemaVersion(last.pre.disk) = 1)
       /\ last.ok => /\ last.ret # None
                     /\ last.ret[1].schema_version = 1
                     /\ manifest = last.ret
       /\ ~last.ok => last.ret = None /\ manifest = last.pre.manifest
       /\ disk = last.pre.disk
       /\ fs = last.pre.fs

\* a load of a file of schema version 2 that holds entries
C11_Witness ==
    /\ Called("load_manifest")
    /\ disk # None
    /\ FileSchemaVersion(disk) = 2
    /\ disk[1].mods # <<>>
    /\ ~last.ok

(* C12: save_manifest followed by load_manifest of a valid manifest        *)
(* returns a manifest equal to the saved one, entries in the same order.   *)
C12_SaveThenLoad ==
    manifest # None
    => LET back == LoadManifest(SaveManifest(manifest[1]))
       IN  /\ back.ok
           /\ back.manifest = manifest
           /\ Len(Mods(back.manifest)) = Len(Mods(manifest))
           /\ \A i \in DOMAIN Mods(manifest) :
                 Mods(back.manifest)[i] = Mods(manifest)[i]

\* a manifest of three entries: one disabled, one without hashes and source
\* path, one with them
C12_Witness ==
    /\ manifest # None
    /\ Len(Mods(manifest)) = 3
    /\ \E i, j, k \in DOMAIN Mods(manifest) :
          /\ ~Mods(manifest)[i].enabled
          /\ Mods(manifest)[j].hashes = None
          /\ Mods(manifest)[j].source.path = None
          /\ Mods(manifest)[k].hashes # None
          /\ Mods(manifest)[k].source.path # None

\* the calls that change the manifest
MutatingCalls == {"init_manifest", "add_mod", "set_enabled", "remove_mod", "purge_mods"}

(* C13: after every call of init_manifest, add_mod, set_enabled,           *)
(* remove_mod or purge_mods that returns successfully, whatever calls came *)
(* before it, the manifest file holds the manifest that is in memory.      *)
C13_PersistedIsMemory ==
    (last.op \in MutatingCalls /\ last.ok)
    => /\ Loaded.ok
       /\ Loaded.manifest = manifest

\* set_enabled has been called to flip the flag of an entry whose file is
\* absent from the directory of its flag, from which it would be moved
FlipOfAbsentFile ==
    /\ Called("set_enabled")
    /\ HasId(Mods(last.pre.manifest), last.args.mod_id)
    /\ LET mods == Mods(last.pre.manifest)
           i == EntryAt(mods, last.args.mod_id)
       IN  /\ mods[i].enabled # last.args.enabled
           /\ ~Exists(last.pre.fs, Designated(mods[i]), mods[i].filename)

\* the call succeeded, moved nothing, and the flipped flag is in memory and
\* in the manifest file
FlippedInPlace ==
    LET i == EntryAt(Mods(last.pre.manifest), last.args.mod_id)
    IN  /\ last.ok
        /\ \A l \in Locations : fs[l].files = last.pre.fs[l].files
        /\ Loaded.ok
        /\ Loaded.manifest = manifest
        /\ Mods(manifest) =
              [Mods(last.pre.manifest) EXCEPT ![i].enabled = last.args.enabled]

WithoutAt(seq, i) ==
    [j \in 1..(Len(seq) - 1) |-> IF j < i THEN seq[j] ELSE seq[j + 1]]

\* the files of a directory other than the one with the given name
OtherFiles(fsx, location, name) ==
    [n \in DOMAIN fsx[location].files \ {name} |-> fsx[location].files[n]]

\* remove_mod has returned successfully
Removed == Called("remove_mod") /\ last.ok

(* C15: a successful remove_mod(id) takes exactly the entry with that id   *)
(* out of the manifest file (and of the manifest in memory), the others    *)
(* unchanged and in order; with remove_files no file of the entry's file   *)
(* name is left in either directory, the returned list holds exactly the   *)
(* paths that existed, each once, and no other file is touched; without    *)
(* remove_files no file is deleted and the list is empty.                  *)
C15_RemoveExactly ==
    Removed
    => LET old == Mods(last.pre.manifest)
           i == EntryAt(old, last.args.mod_id)
           name == old[i].filename
           existed == {PathIn(l, name) : l \in {x \in Locations :
                                                  Exists(last.pre.fs, x, name)}}
           deleted == last.ret.deleted
       IN  /\ HasId(old, last.args.mod_id)
           /\ Loaded.ok
           /\ Mods(Loaded.manifest) = WithoutAt(old, i)
           /\ Loaded.manifest = manifest
           /\ last.ret.entry = Some(old[i])
           /\ last.args.remove_files
              => /\ \A l \in Locations : ~Exists(fs, l, name)
                 /\ {deleted[k] : k \in DOMAIN deleted} = existed
                 /\ Len(deleted) = Cardinality(existed)
                 /\ \A l \in Locations :
                       OtherFiles(fs, l, name) = OtherFiles(last.pre.fs, l, name)
           /\ ~last.args.remove_files
              => /\ deleted = <<>>
                 /\ \A l \in Locations : fs[l].files = last.pre.fs[l].files

\* the first of several entries has been removed with its file, which was
\* in both directories
C15_Witness ==
    /\ Removed
    /\ last.args.remove_files
    /\ Len(last.ret.deleted) = 2
    /\ Len(Mods(manifest)) >= 1
    /\ Mods(last.pre.manifest)[1].id = last.args.mod_id

\* remove_mod or set_enabled has been called with an id no entry has
UnknownId ==
    /\ last.op \in {"remove_mod", "set_enabled"}
    /\ ~HasId(Mods(last.pre.manifest), last.args.mod_id)

(* C16: remove_mod and set_enabled with an id that no entry has fail and   *)
(* leave the manifest in memory, the manifest file and the files of both   *)
(* directories unchanged.                                                  *)
C16_UnknownIdFails ==
    UnknownId
    => /\ ~last.ok
       /\ manifest = last.pre.manifest
       /\ disk = last.pre.disk
       /\ \A l \in Locations : fs[l].files = last.pre.fs[l].files

\* remove_mod with remove_files and an unknown id, on a manifest with
\* entries whose files are there
C16_Witness ==
    /\ UnknownId
    /\ Called("remove_mod")
    /\ last.args.remove_files
    /\ Len(Mods(manifest)) >= 2
    /\ \A i \in DOMAIN Mods(manifest) :
          \E l \in Locations : Exists(fs, l, Mods(manifest)[i].filename)

\* the paths of a file name that exist, the enabled directory first
ExistingPaths(fsx, name) ==
    (IF Exists(fsx, DEFAULT_MODS_DIR, name)
     THEN <<PathIn(DEFAULT_MODS_DIR, name)>> ELSE <<>>)
    \o (IF Exists(fsx, DisabledLocation, name)
        THEN <<PathIn(DisabledLocation, name)>> ELSE <<>>)

\* the paths the removals of entries i, i+1, ... delete, one after the
\* other: a file name is there for the first entry that names it
RECURSIVE PathsFrom(_, _, _)
PathsFrom(mods, i, fsx) ==
    IF i > Len(mods) THEN <<>>
    ELSE (IF FirstWithName(mods, i) THEN ExistingPaths(fsx, mods[i].filename)
          ELSE <<>>)
         \o PathsFrom(mods, i + 1, fsx)

(* C17: purge_mods on a manifest of n entries returns the count n and      *)
(* leaves the manifest in memory without entries and, when n > 0, the      *)
(* manifest file without entries; with remove_files no file with a former  *)
(* entry's file name is left in either directory and the returned list is  *)
(* the concatenation of the paths each removal deleted; without            *)
(* remove_files no file is deleted.                                        *)
C17_PurgeAll ==
    Called("purge_mods")
    => LET old == Mods(last.pre.manifest)
       IN  /\ last.ok
           /\ last.ret.removed_count = Len(old)
           /\ Mods(manifest) = <<>>
           /\ old # <<>> => /\ Loaded.ok
                            /\ Loaded.manifest = manifest
           /\ old = <<>> => disk = last.pre.disk
           /\ last.args.remove_files
              => /\ \A i \in DOMAIN old, l \in Locations :
                       ~Exists(fs, l, old[i].filename)
                 /\ last.ret.deleted = PathsFrom(old, 1, last.pre.fs)
           /\ ~last.args.remove_files
              => /\ last.ret.deleted = <<>>
                 /\ \A l \in Locations : fs[l].files = last.pre.fs[l].files

\* a purge of three entries that deletes files of two names
C17_Witness ==
    /\ Called("purge_mods")
    /\ last.args.remove_files
    /\ Len(Mods(last.pre.manifest)) = 3
    /\ Cardinality({last.ret.deleted[k].name : k \in DOMAIN last.ret.deleted}) = 2

----------------------------------------------------------------------------
(* Compatibility checks of add_mod *)

\* what the resolver answered to the last add_mod, asked again on the
\* directories as that call found them
LastResolved ==
    LET a == last.args
        fs1 == EnsureDirectories(last.pre.fs)
        t == SourceTypeOf(a, fs1)
    IN  Resolve(t, SourceRequest(cfg, last.pre.manifest[1], a, t), fs1)

\* the last call was an add_mod, not manifest-only, whose resolver returned
\* a mod, so that the compatibility checks ran
Checked ==
    /\ last.op = "add_mod"
    /\ ~last.args.manifest_only
    /\ LastResolved.ok

RaisedKind(kind) == ~last.ok /\ last.ret # None /\ last.ret[1].kind = kind

\* loader hint, else manifest loader, else the loader from configuration
FirstSet(a, b, c) ==
    IF a # None /\ a[1] # <<>> THEN a
    ELSE IF b # None /\ b[1] # <<>> THEN b ELSE c

LoadersDiffer ==
    LET preferred == FirstSet(last.args.loader_hint,
                              last.pre.manifest[1].loader, LoaderFromConfig(cfg))
        returned == LastResolved.resolved[1].loader
    IN  /\ preferred # None /\ preferred[1] # <<>>
        /\ returned # None /\ returned[1] # <<>>
        /\ Lower(preferred[1]) # Lower(returned[1])

\* C18: when the resolver of an add_mod that is not manifest-only has
\* returned, the call fails with the loader error exactly when the preferred
\* loader (hint, else manifest loader, else configuration loader) and the
\* resolver's loader are both set and differ ignoring case; the failed call
\* leaves the manifest file and the entries in memory as they were.
C18_LoaderCheck ==
    Checked
    => /\ RaisedKind("loader") <=> LoadersDiffer
       /\ RaisedKind("loader")
            => /\ disk = last.pre.disk
               /\ Mods(manifest) = Mods(last.pre.manifest)

\* an add without loader hint fails on the loader the registry names
C18_Witness ==
    /\ Checked
    /\ RaisedKind("loader")
    /\ last.args.loader_hint = None
    /\ LastResolved.resolved[1].loader = Some(S_forge)

\* the versions the resolver returned, as the check receives them
ReturnedVersions ==
    NormalizeVersionList(LastResolved.resolved[1].mc_versions,
                         LastResolved.resolved[1].mc_version)

\* the preferred Minecraft version of the last add_mod
PreferredVersion ==
    LET a == last.args
    IN  SourceRequest(cfg, last.pre.manifest[1], a,
                      SourceTypeOf(a, EnsureDirectories(last.pre.fs))
                     ).preferred_mc_version

VersionUnsupported ==
    /\ PreferredVersion # None /\ PreferredVersion[1] # <<>>
    /\ ReturnedVersions # <<>>
    /\ \A i \in DOMAIN ReturnedVersions :
          Lower(ReturnedVersions[i]) # Lower(PreferredVersion[1])

\* part occurs in text
Contains(text, part) ==
    \E i \in 0..(Len(text) - Len(part)) : SubSeq(text, i + 1, i + Len(part)) = part

\* the raised message lists every returned version
NamesEveryVersion ==
    \A i \in DOMAIN ReturnedVersions :
       \E k \in DOMAIN last.ret[1].parts :
          Contains(last.ret[1].parts[k], ReturnedVersions[i])

\* C19 as stated: when the resolver of an add_mod that is not
\* manifest-only has returned, the call fails with the Minecraft-version
\* error exactly when a preferred version is set, the returned list is
\* non-empty and does not hold the preferred version ignoring case; the
\* message then names every version of the list; an empty list never fails.
C19_VersionCheck ==
    Checked
    => /\ RaisedKind("mc_version") <=> VersionUnsupported
       /\ RaisedKind("mc_version") => NamesEveryVersion
       /\ ReturnedVersions = <<>> => ~RaisedKind("mc_version")

\* C19 amended: the same, for the calls whose loader check passed; when
\* the loaders differ too, the loader error is raised instead and the
\* versions are not looked at.
C19_VersionCheckAfterLoader ==
    Checked
    => /\ ~LoadersDiffer
            => (RaisedKind("mc_version") <=> VersionUnsupported)
       /\ LoadersDiffer => RaisedKind("loader")
       /\ RaisedKind("mc_version") => NamesEveryVersion
       /\ ReturnedVersions = <<>> => ~RaisedKind("mc_version")

\* an add fails on a release tagged for two other versions
C19_Witness ==
    /\ Checked
    /\ RaisedKind("mc_version")
    /\ ReturnedVersions = <<S_1_20, S_1_19>>
    /\ PreferredVersion = Some(S_1_21)

----------------------------------------------------------------------------
(* The custom source type *)

\* the last call was an add_mod that worked with the source type custom
CustomAdd ==
    /\ last.op = "add_mod"
    /\ SourceTypeOf(last.args, EnsureDirectories(last.pre.fs)) = "custom"

\* manifest_only is set with a filename
EntryOnly == last.args.manifest_only /\ Truthy(last.args.filename_override)

\* no file of either directory was created, replaced or deleted
SameFiles ==
    \A l \in Locations : fs[l].files = last.pre.fs[l].files

\* the call returned, appended and persisted an entry of type custom that
\* records no hashes, and touched no file
CustomRecorded ==
    /\ last.ok
    /\ Len(Mods(manifest)) = Len(Mods(last.pre.manifest)) + 1
    /\ LET e == Mods(manifest)[Len(Mods(manifest))]
       IN  /\ e.source.type = "custom"
           /\ e.hashes = None
           /\ e.filename = last.args.filename_override[1]
           /\ last.ret = Some(e)
    /\ Loaded.ok /\ Loaded.manifest = manifest
    /\ SameFiles

CustomRefused == ~last.ok /\ disk = last.pre.disk /\ SameFiles

\* C20 as stated: an add_mod of source type custom fails and persists
\* nothing, unless manifest_only is set with a filename, in which case it
\* succeeds, records an entry of type custom without hashes and creates,
\* copies or downloads no mod file.
C20_Custom ==
    CustomAdd => IF EntryOnly THEN CustomRecorded ELSE CustomRefused

\* C20 amended: with manifest_only and a filename the call succeeds as
\* stated when the resulting id is not yet in the manifest; when it is, the
\* call fails and persists nothing, as every other add of type custom.
C20_CustomUnlessTaken ==
    CustomAdd
    => IF EntryOnly /\ ~IdTaken(last.pre.manifest[1], ResultingId(last.args))
       THEN CustomRecorded
       ELSE CustomRefused

\* an existing file is added as custom, manifest-only: the entry is
\* recorded and the file is not copied
C20_Witness ==
    /\ CustomAdd
    /\ last.args.source_type = Some("custom")
    /\ last.args.source.file # None
    /\ EntryOnly
    /\ last.ok
    /\ ~Exists(fs, DEFAULT_MODS_DIR, last.args.filename_override[1])

----------------------------------------------------------------------------
(* manifest_only without a filename *)

Unnamed ==
    /\ last.op = "add_mod"
    /\ last.args.manifest_only
    /\ (last.args.filename_override = None
          \/ last.args.filename_override = Some(<<>>))

\* C21: an add_mod with manifest_only and no filename fails with the
\* error that asks for a filename, whatever the source and the source type;
\* the manifest in memory and the manifest file are what they were, and no
\* resolver has run: no file of either directory was written.
C21_UnnamedFails ==
    Unnamed
    => /\ RaisedKind("filename_required")
       /\ manifest = last.pre.manifest
       /\ disk = last.pre.disk
       /\ SameFiles

\* refused on a manifest whose loader the call would otherwise have set,
\* for a source the registry could have resolved
C21_Witness ==
    /\ Unnamed
    /\ ~last.ok
    /\ last.pre.manifest[1].loader = None
    /\ InferSourceType(last.args.source, last.pre.fs) = "modrinth"

----------------------------------------------------------------------------
(* inventory and the state it reads *)

\* C22: inventory changes neither the manifest in memory, nor the manifest
\* file, nor the directories: no file and no directory is created, moved or
\* deleted, also when one of the two directories does not exist yet.
C22_InventoryReadOnly ==
    last.op = "inventory"
    => /\ manifest = last.pre.manifest
       /\ disk = last.pre.disk
       /\ fs = last.pre.fs

----------------------------------------------------------------------------
(* Failures inside an operation *)

\* ModManifest.add raised during the adoption of the last init_manifest:
\* two mod files of the enabled directory derive the same id
AdoptRaised ==
    /\ last.op = "init_manifest"
    /\ last.args.adopt_existing
    /\ (last.pre.disk = None \/ last.args.force)
    /\ \E f, g \in IterModFiles(EnsureDirectories(last.pre.fs), DEFAULT_MODS_DIR) :
          f # g /\ DeriveModId(f) = DeriveModId(g)

\* a registry request raised during the last add_mod: the version was
\* asked for by the hint as its id and the request failed
LookupRaised ==
    /\ last.op = "add_mod"
    /\ ~last.args.manifest_only
    /\ SourceTypeOf(last.args, EnsureDirectories(last.pre.fs)) = "modrinth"
    /\ last.args.source.registry.project # None
    /\ Truthy(last.args.version_hint)
    /\ last.args.source.registry.by_hint = None

\* C23: when a step of init_manifest (adoption included) or of add_mod
\* (registry requests included) has raised ManifestError, the operation
\* fails; it never returns success after such a failure.
C23_NoFailureSwallowed ==
    (AdoptRaised \/ LookupRaised) => ~last.ok

----------------------------------------------------------------------------
(* Two invocations racing *)

\* both invocations have finished and each has saved
BothSaved ==
    /\ invocations # <<>>
    /\ \A p \in {1, 2} :
          invocations[p].pc = "done" /\ invocations[p].wrote # None

\* the invocation that saved last, and the other one
LaterWriter ==
    IF invocations[1].saved_at > invocations[2].saved_at THEN 1 ELSE 2

EarlierWriter == 3 - LaterWriter

\* the manifest file shows what invocation p did: the entry it added, the
\* flag it set, or the absence of the entry it removed
ChangeKept(p) ==
    LET o == invocations[p].op[1]
        mods == Mods(Loaded.manifest)
    IN  CASE o.op = "add_mod" -> HasId(mods, ResultingId(o.args))
          [] o.op = "set_enabled" ->
                \E i \in DOMAIN mods :
                   mods[i].id = o.args.mod_id /\ mods[i].enabled = o.args.enabled
          [] o.op = "remove_mod" -> ~HasId(mods, o.args.mod_id)

LoadedAfterSave ==
    invocations[LaterWriter].loaded_at > invocations[EarlierWriter].saved_at

\* C24: when both invocations have loaded, operated and saved, the
\* manifest file is the document the later writer wrote, and the change of
\* the earlier writer is in it only if the later writer loaded after the
\* earlier one saved.
C24_LaterWriterWins ==
    BothSaved
    => /\ disk = invocations[LaterWriter].wrote
       /\ ChangeKept(LaterWriter)
       /\ ChangeKept(EarlierWriter) => LoadedAfterSave

\* a lost update: the later writer loaded before the earlier one saved and
\* the earlier change is gone
C24_Witness ==
    /\ BothSaved
    /\ ~LoadedAfterSave
    /\ ~ChangeKept(EarlierWriter)
    /\ invocations[EarlierWriter].op[1].op = "add_mod"

----------------------------------------------------------------------------
(* Entries that stay *)

EntryCalls == {"add_mod", "set_enabled", "remove_mod", "purge_mods"}

\* every entry of old whose id is still in new is there as it was, but for
\* the enabled flag of the entry set_enabled was called on
StayAsTheyWere(old, new) ==
    \A i \in DOMAIN old, j \in DOMAIN new :
       old[i].id = new[j].id
       => IF last.op = "set_enabled" /\ old[i].id = last.args.mod_id
          THEN new[j] = [old[i] EXCEPT !.enabled = new[j].enabled]
          ELSE new[j] = old[i]

\* C25: add_mod, set_enabled, remove_mod and purge_mods leave every entry
\* that stays in the manifest, in memory and in the manifest file, with the
\* id, filename, installed_at, source, hashes and every other field it had;
\* set_enabled changes the enabled field of its target at most.
C25_EntriesKeepFields ==
    (last.op \in EntryCalls /\ last.pre.manifest # None)
    => /\ StayAsTheyWere(Mods(last.pre.manifest), Mods(manifest))
       /\ Loaded.ok
            => StayAsTheyWere(Mods(LoadManifest(last.pre.disk).manifest),
                              Mods(Loaded.manifest))

\* a flag is flipped in a manifest of two entries
C25_Witness ==
    /\ last.op = "set_enabled"
    /\ last.ok
    /\ Len(Mods(manifest)) = 2
    /\ manifest # last.pre.manifest
    /\ disk # last.pre.disk

----------------------------------------------------------------------------
(* A file name in both directories *)

InBoth(fsx, name) ==
    /\ IsModFileIn(fsx, DEFAULT_MODS_DIR, name)
    /\ IsModFileIn(fsx, DisabledLocation, name)

\* whether the digest the entry records is that of the disabled copy: None
\* when the entry records none
AgainstDisabledCopy(entry, fsx) ==
    IF entry.hashes # None /\ entry.hashes[1].sha256 # None
    THEN Some(entry.hashes[1].sha256[1] =
                Sha256(fsx[DisabledLocation].files[entry.filename].content))
    ELSE None

\* C26: when a file name is in both directories, inventory reports the
\* entry of that name (the first one, should several entries share it) as
\* found in the disabled directory and compares its hash with the disabled
\* copy: an enabled entry is moved, a disabled entry is ok or hash-mismatch,
\* whatever the enabled copy holds.
C26_DisabledCopyWins ==
    Called("inventory")
    => \A i \in DOMAIN last.ret.entries :
          LET e == Mods(manifest)[i]
              st == last.ret.entries[i]
          IN  (FirstWithName(Mods(manifest), i) /\ InBoth(fs, e.filename))
              => /\ st.present
                 /\ st.location = Some(DisabledLocation)
                 /\ st.hash_ok = AgainstDisabledCopy(e, fs)
                 /\ Status(st) =
                       IF e.enabled THEN "moved"
                       ELSE IF AgainstDisabledCopy(e, fs) = Some(FALSE)
                       THEN "hash-mismatch" ELSE "ok"

\* a disabled entry is ok by its disabled copy while the enabled copy of
\* the same name holds something else
C26_Witness ==
    /\ Called("inventory")
    /\ \E i \in DOMAIN last.ret.entries :
          LET e == Mods(manifest)[i]
          IN  /\ InBoth(fs, e.filename)
              /\ ~e.enabled
              /\ Status(last.ret.entries[i]) = "ok"
              /\ fs[DEFAULT_MODS_DIR].files[e.filename].content #
                    fs[DisabledLocation].files[e.filename].content

----------------------------------------------------------------------------
(* Entries that share a file name *)

\* another entry of the manifest has the file name of entry i
SharesName(mods, i) ==
    \E j \in DOMAIN mods : j # i /\ mods[j].filename = mods[i].filename

\* C27: when several entries have one file name and a file of that name
\* is in a directory, inventory reports the first of them present and every
\* later one not present (missing), and no file of that name among the
\* extras.
C27_FirstEntryTakesFile ==
    Called("inventory")
    => \A i \in DOMAIN last.ret.entries :
          LET mods == Mods(manifest)
              st == last.ret.entries[i]
          IN  (SharesName(mods, i) /\ FoundIn(fs, mods[i].filename) # None)
              => /\ FirstWithName(mods, i)
                    => st.present /\ st.location = FoundIn(fs, mods[i].filename)
                 /\ ~FirstWithName(mods, i)
                    => /\ ~st.present
                       /\ st.location = None
                       /\ Status(st) = "missing"
                 /\ ExtrasNamed(last.ret, mods[i].filename) = {}

\* entry c has the file name of entry a, the file is in both directories:
\* a is matched, c is missing
C27_Witness ==
    /\ Called("inventory")
    /\ \E i, j \in DOMAIN last.ret.entries :
          /\ i < j
          /\ Mods(manifest)[i].filename = Mods(manifest)[j].filename
          /\ InBoth(fs, Mods(manifest)[i].filename)
          /\ last.ret.entries[i].present
          /\ Status(last.ret.entries[j]) = "missing"

----------------------------------------------------------------------------
(* The manifest's loader and Minecraft version *)

\* the last call was an add_mod on a loaded manifest
Adding == last.op = "add_mod" /\ last.pre.manifest # None

\* the manifest the file held before the last call
LoadedBefore == LoadManifest(last.pre.disk)

\* add_mod left the field as it was: in memory when it was set there, in
\* the manifest the file holds when it was set there
FieldKept(field) ==
    /\ last.pre.manifest[1][field] # None
          => manifest[1][field] = last.pre.manifest[1][field]
    /\ (LoadedBefore.ok /\ LoadedBefore.manifest[1][field] # None /\ Loaded.ok)
          => Loaded.manifest[1][field] = LoadedBefore.manifest[1][field]

\* the field is in memory and in the manifest file with the value
FieldPersisted(field, value) ==
    /\ manifest[1][field] = value
    /\ Loaded.ok
    /\ Loaded.manifest[1][field] = value

\* C28: add_mod leaves a manifest loader and a manifest Minecraft version
\* that are set as they are, whatever the hints and the resolver's answer;
\* when the field is unset and the configuration gives a value, a
\* successful add_mod persists the manifest with the field set to the
\* configuration's value (for the loader: the loader derived from the
\* server type).
C28_ManifestDefaults ==
    Adding
    => /\ FieldKept("loader")
       /\ FieldKept("minecraft_version")
       /\ (/\ last.ok
           /\ last.pre.manifest[1].loader = None
           /\ LoaderFromConfig(cfg) # None)
            => FieldPersisted("loader", LoaderFromConfig(cfg))
       /\ (/\ last.ok
           /\ last.pre.manifest[1].minecraft_version = None
           /\ cfg.minecraft_version # <<>>)
            => FieldPersisted("minecraft_version", Some(cfg.minecraft_version))

\* an add with a loader hint and a registry release for another loader
\* succeeds on a manifest of another server and leaves its loader
C28_Witness ==
    /\ Adding
    /\ last.ok
    /\ last.pre.manifest[1].loader = Some(S_forge)
    /\ LoaderFromConfig(cfg) = Some(S_fabric)
    /\ manifest[1].loader = Some(S_forge)
    /\ ~last.args.manifest_only

----------------------------------------------------------------------------
(* Selection of a registry version or file *)

\* the first position of the list whose item passes, 0 when none does
FirstWhere(S) == IF S = {} THEN 0 ELSE CHOOSE i \in S : \A j \in S : i <= j

\* positions of the candidates of a channel
OfChannel(versions, channel) ==
    {i \in DOMAIN versions : versions[i].version_type = channel}

\* the candidate the stated order picks from a non-empty list
PickedByOrder(versions, hint) ==
    LET numbered == IF hint = None \/ hint = Some(<<>>) THEN {}
                    ELSE {i \in DOMAIN versions :
                            versions[i].version_number = hint[1]}
    IN  IF numbered # {} THEN versions[FirstWhere(numbered)]
        ELSE IF OfChannel(versions, "release") # {}
        THEN versions[FirstWhere(OfChannel(versions, "release"))]
        ELSE IF OfChannel(versions, "beta") # {}
        THEN versions[FirstWhere(OfChannel(versions, "beta"))]
        ELSE IF OfChannel(versions, "alpha") # {}
        THEN versions[FirstWhere(OfChannel(versions, "alpha"))]
        ELSE versions[1]

\* the version fetched by the hint as an id belongs to the project
FetchedForProject(registry, hint) ==
    /\ hint # None /\ hint # Some(<<>>)
    /\ registry.by_hint # None
    /\ registry.by_hint[1].project_id = registry.project[1].id

\* C29: over a non-empty candidate list, the version fetched by the hint
\* as an id is selected when its project id is the project's; otherwise
\* the first candidate whose version number is the hint, else the first of
\* channel release, else of beta, else of alpha, else the first candidate.
C29_VersionSelection ==
    (last.op = "_resolve_version" /\ last.args.registry.versions # <<>>)
    => LET registry == last.args.registry
           hint == last.args.version_hint
       IN  last.ret =
             IF FetchedForProject(registry, hint) THEN registry.by_hint
             ELSE Some(PickedByOrder(registry.versions, hint))

\* the hint is no id of the project; the second candidate has the hinted
\* number and is selected before an earlier release
C29_Witness ==
    /\ last.op = "_resolve_version"
    /\ Len(last.args.registry.versions) = 3
    /\ last.args.version_hint = Some(<<"2">>)
    /\ last.args.registry.by_hint # None
    /\ ~FetchedForProject(last.args.registry, last.args.version_hint)
    /\ last.args.registry.versions[1].version_type = "release"
    /\ last.ret = Some(last.args.registry.versions[2])

\* positions of the files the hint names: by id as text, file name or
\* display name
NamedByHint(files, hint) ==
    IF hint = None \/ hint = Some(<<>>) THEN {}
    ELSE {i \in DOMAIN files :
            \/ files[i].id # None /\ Str(files[i].id[1]) = hint[1]
            \/ files[i].id = None /\ hint[1] = <<"N", "o", "n", "e">>
            \/ files[i].fileName = hint[1]
            \/ files[i].displayName = hint[1]}

\* positions of the files of a release type
OfReleaseType(files, t) == {i \in DOMAIN files : files[i].releaseType = t}

\* the position the stated order picks
PositionByOrder(files, hint) ==
    IF NamedByHint(files, hint) # {} THEN FirstWhere(NamedByHint(files, hint))
    ELSE IF OfReleaseType(files, 1) # {} THEN FirstWhere(OfReleaseType(files, 1))
    ELSE IF OfReleaseType(files, 2) # {} THEN FirstWhere(OfReleaseType(files, 2))
    ELSE IF OfReleaseType(files, 3) # {} THEN FirstWhere(OfReleaseType(files, 3))
    ELSE 1

\* C30: over a non-empty file list, the first file whose id as text, file
\* name or display name is the hint is selected; otherwise the first file of
\* release type 1, else of 2, else of 3, else the first file; the selected
\* file is a member of the list.
C30_FileSelection ==
    last.op = "_select_file"
    => /\ last.ret = Some(last.args.files[PositionByOrder(last.args.files,
                                                         last.args.version_hint)])
       /\ \E i \in DOMAIN last.args.files : last.ret = Some(last.args.files[i])

\* the hint is the display name of the third file only, which is selected
\* before the releases ahead of it
C30_Witness ==
    /\ last.op = "_select_file"
    /\ Len(last.args.files) = 3
    /\ last.args.version_hint = Some(<<"d">>)
    /\ NamedByHint(last.args.files, last.args.version_hint) = {3}
    /\ last.args.files[1].releaseType = 1
    /\ last.args.files[3].releaseType = 3
    /\ last.ret = Some(last.args.files[3])

----------------------------------------------------------------------------
(* What a registry add records *)

\* the last call was an add_mod from Modrinth that returned an entry
ModrinthAdded ==
    /\ Checked
    /\ last.ok
    /\ SourceTypeOf(last.args, EnsureDirectories(last.pre.fs)) = "modrinth"

\* the first game version of the version the resolver selected, None when
\* its list is empty
FirstGameVersion ==
    LET listed == LastResolved.resolved[1].mc_versions
    IN  IF listed = None THEN None ELSE Some(listed[1][1])

\* C31: the mc_version of the entry a Modrinth add records is the preferred
\* Minecraft version when one was supplied, and the first game version of
\* the selected version otherwise.
C31_RecordedVersion ==
    ModrinthAdded
    => /\ Truthy(PreferredVersion) => last.ret[1].mc_version = PreferredVersion
       /\ (~Truthy(PreferredVersion) /\ FirstGameVersion # None)
          => last.ret[1].mc_version = FirstGameVersion

----------------------------------------------------------------------------
(* Where an added file lies *)

\* the last call was an add_mod, not manifest-only, that returned an entry
AddedWithFile == Checked /\ last.ok

\* C32: right after a successful add_mod that is not manifest-only, the new
\* entry's file is in the directory its enabled flag designates, and an
\* inventory taken now classifies the new entry ok.
C32_AddedFileInPlace ==
    AddedWithFile
    => LET entry == last.ret[1]
       IN  /\ IsModFileIn(fs, Designated(entry), entry.filename)
           /\ StatusOf(manifest[1], fs, EntryAt(Mods(manifest), entry.id)) = "ok"

----------------------------------------------------------------------------
(* What a failed add leaves behind *)

\* C33: whenever add_mod fails, the manifest file is exactly what it was
\* before the call.
C33_FailedAddKeepsFile ==
    (last.op = "add_mod" /\ ~last.ok) => disk = last.pre.disk

\* the last add_mod failed after its resolver had returned: at the loader
\* check, at the version check or at the duplicate check
FailedAfterResolve == Checked /\ ~last.ok

\* C34: whenever add_mod fails after its resolver has run, the enabled and
\* the disabled directory hold what they held before the call: no file was
\* added and no file was overwritten.
C34_FailedAddKeepsFiles ==
    FailedAfterResolve
    => \A l \in Locations : fs[l].files = last.pre.fs[l].files

----------------------------------------------------------------------------
(* The entries an operation is not about *)

\* the last call was add_mod, set_enabled or remove_mod
OnOneEntry ==
    /\ last.op \in {"add_mod", "set_enabled", "remove_mod"}
    /\ last.pre.manifest # None

\* the file names of the entry the last call was about: of the entry with
\* the given id, for add_mod the name given for a manifest-only entry or
\* the name the resolver wrote; none when there is no such entry or file
OperatedNames ==
    IF last.op = "add_mod"
    THEN IF last.args.manifest_only
         THEN {last.args.filename_override[k] : k \in DOMAIN last.args.filename_override}
         ELSE IF Checked THEN {LastResolved.resolved[1].filename} ELSE {}
    ELSE {e.filename : e \in {Mods(last.pre.manifest)[i] :
                                i \in {j \in DOMAIN Mods(last.pre.manifest) :
                                         Mods(last.pre.manifest)[j].id = last.args.mod_id}}}

\* the entries the last call was not about: in the manifest before and
\* after it, as [before, after] positions
OtherEntries ==
    {p \in (DOMAIN Mods(last.pre.manifest)) \X (DOMAIN Mods(manifest)) :
        /\ Mods(last.pre.manifest)[p[1]].id = Mods(manifest)[p[2]].id
        /\ (last.op = "add_mod" \/ Mods(manifest)[p[2]].id # last.args.mod_id)}

\* the entry has the same inventory status before and after the last call
StatusKept(p) ==
    StatusOf(last.pre.manifest[1], last.pre.fs, p[1]) = StatusOf(manifest[1], fs, p[2])

\* C35 as stated: add_mod, set_enabled and remove_mod never change the
\* inventory status of an entry other than the one they are about, also
\* when two entries have the same file name.
C35_OthersKeepStatus ==
    OnOneEntry => \A p \in OtherEntries : StatusKept(p)

\* C35 amended: the same for every other entry whose file name is not the
\* file name of the entry the call is about.
C35_OthersKeepStatusByName ==
    OnOneEntry
    => LET before == InventoryOf(last.pre.manifest[1], last.pre.fs).entries
           after == InventoryOf(manifest[1], fs).entries
           names == OperatedNames
       IN  \A p \in OtherEntries :
              Mods(manifest)[p[2]].filename \notin names
              => Status(before[p[1]]) = Status(after[p[2]])

\* entry a was removed with its file while entry b, of another file name,
\* was ok and stays ok
C35_Witness ==
    /\ last.op = "remove_mod" /\ last.ok /\ last.args.remove_files
    /\ last.args.mod_id = S_a
    /\ last.ret.deleted # <<>>
    /\ \E p \in OtherEntries :
          /\ Mods(manifest)[p[2]].id = S_b
          /\ Mods(manifest)[p[2]].filename \notin OperatedNames
          /\ StatusOf(manifest[1], fs, p[2]) = "ok"

----------------------------------------------------------------------------
(* The files an operation is not about *)

\* the last call was set_enabled, remove_mod or purge_mods
MovesOrDeletes ==
    /\ last.op \in {"set_enabled", "remove_mod", "purge_mods"}
    /\ last.pre.manifest # None

\* the file names of the entries the last call operated on: every entry for
\* purge_mods, else the entry of the given id
EntryNames ==
    LET old == Mods(last.pre.manifest)
    IN  {old[i].filename :
           i \in {j \in DOMAIN old :
                    last.op = "purge_mods" \/ old[j].id = last.args.mod_id}}

\* the untracked files inventory reports before the last call
ExtrasBefore == InventoryOf(last.pre.manifest[1], last.pre.fs).extras

\* C36: set_enabled, remove_mod and purge_mods leave every name of both
\* directories that is not the file name of an entry they operate on as it
\* was, and every untracked file that was in a directory is in it after the
\* call with the same content.
C36_OtherFilesUntouched ==
    MovesOrDeletes
    => /\ \A l \in Locations, n \in AllNames \ EntryNames :
             fs[l].files[n] = last.pre.fs[l].files[n]
       /\ \A k \in DOMAIN ExtrasBefore :
             LET x == ExtrasBefore[k]
             IN  fs[x.location].files[x.filename] =
                    last.pre.fs[x.location].files[x.filename]

\* entry a was disabled and its file moved while b.jar, which no entry
\* names, stays in the enabled directory
C36_Witness ==
    /\ last.op = "set_enabled" /\ last.ok /\ last.args.move_files
    /\ last.args.mod_id = S_a
    /\ Exists(last.pre.fs, DEFAULT_MODS_DIR, F_a_jar)
    /\ ~Exists(fs, DEFAULT_MODS_DIR, F_a_jar)
    /\ \E k \in DOMAIN ExtrasBefore :
          /\ ExtrasBefore[k].filename = F_b_jar
          /\ ExtrasBefore[k].location = DEFAULT_MODS_DIR
    /\ Exists(fs, DEFAULT_MODS_DIR, F_b_jar)

----------------------------------------------------------------------------
(* Enabling and disabling keep the files *)

\* the number of mod files in the two directories taken together
ModFileCount(fsx) ==
    Cardinality(IterModFiles(fsx, DEFAULT_MODS_DIR))
    + Cardinality(IterModFiles(fsx, DisabledLocation))

\* the last call disabled an enabled entry, moving files
Disabled ==
    /\ last.op = "set_enabled" /\ last.ok
    /\ ~last.args.enabled /\ last.args.move_files
    /\ \E i \in DOMAIN Mods(last.pre.manifest) :
          /\ Mods(last.pre.manifest)[i].id = last.args.mod_id
          /\ Mods(last.pre.manifest)[i].enabled

\* what enabling the entry again, moving files, leaves behind
EnabledAgain ==
    SetEnabledCall(manifest[1], disk, fs, last.args.mod_id, TRUE, TRUE)

\* C37: set_enabled leaves the number of mod files in the two directories
\* together unchanged, and a disable followed by an enable of the same entry,
\* both moving files, leaves both directories and the manifest as they were
\* before the disable.
C37_NoFileLost ==
    /\ (last.op = "set_enabled" /\ last.pre.manifest # None)
          => ModFileCount(fs) = ModFileCount(last.pre.fs)
    /\ Disabled
          => /\ \A l \in Locations :
                   EnabledAgain.fs[l].files = last.pre.fs[l].files
             /\ EnabledAgain.manifest = last.pre.manifest
             /\ EnabledAgain.disk = SaveManifest(last.pre.manifest[1])

\* the invocation named by invocations.args stopped after moving a file
MovedThenStopped(pcs) == invocations.pc \in pcs /\ invocations.moved

\* the entry the interrupted call was about, in the manifest file
InterruptedEntry == EntryAt(Mods(Loaded.manifest), invocations.args.mod_id)

\* the directory the interrupted call moved the file to
MovedTo == IF invocations.args.enabled THEN DEFAULT_MODS_DIR ELSE DisabledLocation

\* the two halves of set_enabled, run one after the other, are set_enabled
SetEnabledInTwoSteps ==
    invocations.pc = "done"
    => LET r == SetEnabledCall(last.pre.manifest[1], last.pre.disk, last.pre.fs,
                               last.args.mod_id, last.args.enabled,
                               last.args.move_files)
       IN  /\ manifest = r.manifest
           /\ disk = r.disk
           /\ fs = r.fs

\* the entry the interrupted call was about, when the call began
EntryBefore == EntryAt(Mods(invocations.before.manifest), invocations.args.mod_id)

\* no other entry had its file name
NameWasUnique ==
    LET mods == Mods(invocations.before.manifest)
    IN  \A j \in DOMAIN mods :
           mods[j].filename = mods[EntryBefore].filename => j = EntryBefore

\* the inventory classified the entry ok when the call began
WasOk ==
    StatusOf(invocations.before.manifest[1], invocations.before.fs, EntryBefore)
       = "ok"

\* set_enabled saves nothing before its file move is over; after an
\* interruption between move and save the manifest file carries the old
\* flag and the file is in the new directory
StoppedAfterMove ==
    /\ invocations.pc = "moved" => disk = last.pre.disk
    /\ MovedThenStopped({"interrupted", "reloaded"})
       => /\ Loaded.ok
          /\ disk = invocations.before.disk
          /\ Mods(Loaded.manifest)[InterruptedEntry].enabled
                # invocations.args.enabled
          /\ Exists(fs, MovedTo, Mods(Loaded.manifest)[InterruptedEntry].filename)
    /\ invocations.pc = "reloaded" => manifest = Loaded.manifest

\* the same set_enabled run again sets the flag, saves and moves no file
RerunMovesNothing ==
    MovedThenStopped({"rerun"})
    => /\ Loaded.ok
       /\ manifest = Loaded.manifest
       /\ Mods(Loaded.manifest)[InterruptedEntry].enabled = invocations.args.enabled
       /\ fs = last.pre.fs

(* C38: set_enabled moves the file before it persists the flag: when the    *)
(* invocation is interrupted after the move and before save_manifest, the   *)
(* manifest file still carries the old flag, the file is in the new         *)
(* directory and the inventory of the reloaded manifest classifies the      *)
(* entry moved; the same set_enabled run again brings the entry to ok       *)
(* without moving a file.                                                   *)
C38_InterruptedMove ==
    /\ StoppedAfterMove
    /\ RerunMovesNothing
    /\ MovedThenStopped({"interrupted", "reloaded"})
       => StatusOf(Loaded.manifest[1], fs, InterruptedEntry) = "moved"
    /\ MovedThenStopped({"rerun"})
       => StatusOf(manifest[1], fs, InterruptedEntry) = "ok"

(* C38, amended: as C38, with the entry classified moved after the          *)
(* interruption when no other entry has its file name or its status was ok  *)
(* when the call began, and brought to ok by the second run when its        *)
(* status was ok when the call began.                                       *)
C38_InterruptedMoveOfOkEntry ==
    /\ StoppedAfterMove
    /\ RerunMovesNothing
    /\ (MovedThenStopped({"interrupted", "reloaded"}) /\ (NameWasUnique \/ WasOk))
       => StatusOf(Loaded.manifest[1], fs, InterruptedEntry) = "moved"
    /\ (MovedThenStopped({"rerun"}) /\ WasOk)
       => StatusOf(manifest[1], fs, InterruptedEntry) = "ok"

\* an entry that was ok has been disabled in two runs, the first one
\* interrupted after its move
C38_Witness ==
    /\ MovedThenStopped({"rerun"})
    /\ WasOk
    /\ ~invocations.args.enabled
    /\ StatusOf(manifest[1], fs, InterruptedEntry) = "ok"
    /\ fs # invocations.before.fs

----------------------------------------------------------------------------
(* The loader check of a registry add *)

\* the last call was an add_mod from the registry whose resolver returned a
\* mod, so that the compatibility checks ran
ModrinthChecked ==
    /\ Checked
    /\ SourceTypeOf(last.args, EnsureDirectories(last.pre.fs)) = "modrinth"

\* the request of the last add_mod
LastRequest ==
    SourceRequest(cfg, last.pre.manifest[1], last.args,
                  SourceTypeOf(last.args, EnsureDirectories(last.pre.fs)))

\* the loader list of the version the resolver selected
SelectedLoaders ==
    ResolveVersion(LastRequest.source.registry,
                   LastRequest.source.registry.project[1], LastRequest)[1].loaders

\* the preferred loader is in that list, ignoring case
LoaderListed ==
    /\ Truthy(LastRequest.preferred_loader)
    /\ \E k \in DOMAIN SelectedLoaders :
          Lower(SelectedLoaders[k]) = Lower(LastRequest.preferred_loader[1])

\* C39: the loader check of a Modrinth add passes whenever the preferred
\* loader is, ignoring case, in the loader list of the selected version,
\* at whatever position; it fails only when that list is not empty and does
\* not hold the preferred loader.
C39_LoaderMembership ==
    ModrinthChecked
    => /\ LoaderListed => ~RaisedKind("loader")
       /\ RaisedKind("loader") => (SelectedLoaders # <<>> /\ ~LoaderListed)

====
